---------------------------- MODULE Spec2Model ----------------------------
(***************************************************************************)
(* Model of the static control-flow recovery engine of smwe_rom:           *)
(* RomAssemblyWalker (the worklist walker, block splitting, subroutine     *)
(* analysis, cleanup) and RomDisassembly::data_block_at, together with     *)
(* the LoROM address conversions they rely on.                             *)
(*                                                                         *)
(* A ROM image is abstracted to what the walker reads of it: for every     *)
(* linear offset the instruction the decoder produces when it starts       *)
(* decoding at that offset (mnemonic class, encoded size, target), the     *)
(* static jump-table registry with the pointers each table holds, and the  *)
(* list of non-code jump addresses.  Addresses keep their real LoROM       *)
(* values (linear 0 is logical 0x8000).  Vector indices are 1-based here   *)
(* where the Rust code is 0-based.                                         *)
(***************************************************************************)
EXTENDS Integers, Sequences, FiniteSets, TLC

VARIABLES
    image,                \* the ROM under analysis (fixed during a behaviour)
    status,               \* "walking" | "finalized" | "failed" | "panicked";
                          \* "addresses" when only addresses are converted
    error,                \* "none", or what stopped the walk / the last call
    chunks,               \* Vec<(AddrPc, BinaryBlock)>
    analysed_chunks,      \* BTreeMap<AddrPc, (AddrPc, usize)>: end -> (start, idx)
    remaining_steps,      \* VecDeque<RomAssemblyWalkerStep>
    analysed_code_starts, \* HashSet<AddrPc>
    subroutine_returns,   \* HashMap<AddrPc, Vec<AddrPc>>
    analysed_subroutines, \* HashMap<AddrPc, SubroutineAnalysisState>
    cached_data_blocks,   \* HashSet<DataBlock>
    calls,                \* number of data_block_at calls made so far
    last                  \* the operation that led to this state, with its input

vars == <<image, status, error, chunks, analysed_chunks, remaining_steps,
          analysed_code_starts, subroutine_returns, analysed_subroutines,
          cached_data_blocks, calls, last>>

----------------------------------------------------------------------------
(* Bounds of the model. *)

\* Extra entry vectors (interrupt vectors) supplied besides AddrSnes::MIN.
MaxVectors == 2

\* data_block_at calls made on one finalized store.
MaxCalls == 3

\* Largest size of a requested data block.
MaxSize == 3

\* Steps of full_analysis's loop followed when a whole run is computed.
MaxSteps == 16

\* Linear offsets are drawn from the 32 KiB banks 0..MaxPcBank; bank 128 is the
\* first one past the LoROM limit 0x400000.
MaxPcBank == 129

\* Logical addresses are drawn from the 64 KiB banks 0..MaxSnesBank.
MaxSnesBank == 255

\* Values in one chain of conversions.
MaxTrail == 4

----------------------------------------------------------------------------
(* Small helpers. *)

Min(S) == CHOOSE x \in S : \A y \in S : x <= y

Last(s) == s[Len(s)]

Range(s) == {s[i] : i \in 1..Len(s)}

\* s with x inserted so that it becomes element number i (1-based) (Vec::insert).
InsertAt(s, i, x) == SubSeq(s, 1, i - 1) \o <<x>> \o SubSeq(s, i, Len(s))

\* A map with key k set to v (BTreeMap/HashMap::insert).
MapInsert(m, k, v) == [x \in DOMAIN m \cup {k} |-> IF x = k THEN v ELSE m[x]]

\* A map without key k (BTreeMap::remove).
MapRemove(m, k) == [x \in DOMAIN m \ {k} |-> m[x]]

EmptyMap == <<>>

\* A local binding (Rust's `let x = value;`): value is computed once and Body
\* sees the result.
Bind(value, Body(_)) == CHOOSE result \in {Body(x) : x \in {value}} : TRUE

----------------------------------------------------------------------------
(* Address model: snes_utils/addr.rs *)

\* AddrPc::is_valid_lorom
PcIsValidLoRom(pc) == pc < 4194304

\* AddrSnes::is_valid_hirom: as is_valid_lorom, without the SRAM window.
SnesIsValidHiRom(a) ==
    LET wram == (a \div 131072) % 128 = 63
        junk == (a \div 4194304) % 2 = 0 /\ (a \div 32768) % 2 = 0
    IN  ~wram /\ ~junk

\* AddrSnes::is_valid_lorom: not work RAM, not the register window, not SRAM.
SnesIsValidLoRom(a) ==
    LET wram == (a \div 131072) % 128 = 63
        junk == (a \div 4194304) % 2 = 0 /\ (a \div 32768) % 2 = 0
        sram == (a \div 1048576) % 8 = 7 /\ (a \div 32768) % 2 = 0
    IN  ~wram /\ ~junk /\ ~sram

\* A variant that keeps the bank bits in place: (a & 0x7F0000) | (a & 0x7FFF)
PcFromSnesUnshifted(a) == ((a \div 65536) % 128) * 65536 + (a % 32768)

\* AddrPc::try_from_lorom, the Ok value: ((a & 0x7F0000) >> 1) | (a & 0x7FFF)
PcFromSnes(a) == ((a \div 65536) % 128) * 32768 + (a % 32768)

\* AddrSnes::try_from_lorom, the Ok value:
\* ((pc << 1) & 0x7F0000) | (pc & 0x7FFF) | 0x8000
SnesFromPc(pc) == ((pc \div 32768) % 128) * 65536 + (pc % 32768) + 32768

----------------------------------------------------------------------------
(* Processor flag model and the instruction interface. *)

\* Processor::new(): accumulator and index registers 8 bits wide.
NewProcessor == [m |-> TRUE, x |-> TRUE]

\* CodeBlock's Default for a processor state
DefaultProcessor == NewProcessor

Ops == {"NOP", "LDA", "REP", "SEP", "BRA", "BCC", "JSR", "RTS", "JT"}

\* Processor::execute: REP #$30 clears both width flags, SEP #$30 sets them.
Execute(p, op) ==
    CASE op = "REP" -> [m |-> FALSE, x |-> FALSE]
      [] op = "SEP" -> [m |-> TRUE, x |-> TRUE]
      [] OTHER -> p

\* Opcode::instruction_size under the flags active at decode time: an
\* immediate load is one byte longer with a 16-bit accumulator.
InstructionSize(cell, p) ==
    IF cell.op = "LDA" /\ ~p.m THEN cell.size + 1 ELSE cell.size

can_change_program_counter(i) == i.op \in {"BRA", "BCC", "JSR", "RTS", "JT"}

is_subroutine_call(i) == i.op \in {"JSR", "JT"}

is_subroutine_return(i) == i.op = "RTS"

\* A variant that recognises no jump-table dispatch.
never_uses_jump_table(i) == FALSE

uses_jump_table(i) == i.op = "JT"

is_single_path_leap(i) == i.op \in {"BRA", "RTS"}

\* Instruction::next_instructions: the logical addresses control can go to.
next_instructions(i) ==
    CASE i.op = "BRA" -> <<i.target>>
      [] i.op = "BCC" -> <<SnesFromPc(i.offset + i.size), i.target>>
      [] i.op = "JSR" -> <<i.target>>
      [] i.op = "JT"  -> <<i.target>>
      [] OTHER -> <<>>


----------------------------------------------------------------------------
(* ROM images.  A cell is what Instruction::parse yields when decoding      *)
(* starts at that offset; size is the encoded size with 8-bit registers.    *)

I(op, size, target) == [op |-> op, size |-> size, target |-> target]

N == I("NOP", 1, 0)

RTS == I("RTS", 1, 0)

\* A logical address in work RAM (0x7E0000): AddrPc::try_from fails on it.
RamAddr == 126 * 65536

\* EXECUTE_PTR_TRAMPOLINE_ADDR (0x0086DF), the target of a jump-table dispatch.
EXECUTE_PTR_TRAMPOLINE_ADDR == SnesFromPc(1759)

JT == I("JT", 1, EXECUTE_PTR_TRAMPOLINE_ADDR)

Table(begin, length, long_ptrs, ptrs) ==
    [begin |-> begin, length |-> length, long_ptrs |-> long_ptrs, ptrs |-> ptrs]

Image(name, cells, tables, non_code) ==
    [name |-> name, cells |-> cells, tables |-> tables, non_code |-> non_code]

Images == {
    \* no-ops up to a return, then unexplored bytes
    Image("linear", <<N, N, RTS, N, N, N>>, {}, {}),
    \* a jump past the end of the image
    Image("invalid_jump", <<N, I("BRA", 2, SnesFromPc(40)), N, N>>, {}, {}),
    \* a conditional branch past the end of the image
    Image("invalid_branch", <<N, I("BCC", 1, SnesFromPc(40)), N, RTS>>, {}, {}),
    \* a call to a subroutine that changes the register widths
    Image("call", <<I("JSR", 1, SnesFromPc(3)), I("LDA", 1, 0), N, I("REP", 1, 0), RTS, N, RTS>>, {}, {}),
    \* two calls of a subroutine that changes the register widths, the second
    \* call with the widths set back
    Image("two_calls",
          <<I("JSR", 1, SnesFromPc(5)), I("SEP", 1, 0), I("JSR", 1, SnesFromPc(5)), RTS, N,
            I("REP", 1, 0), RTS>>, {}, {}),
    \* a subroutine that branches to a jump-table dispatch and otherwise changes
    \* the register widths and returns
    Image("return_after_dispatch",
          <<I("JSR", 1, SnesFromPc(2)), RTS, I("BCC", 1, SnesFromPc(5)), I("REP", 1, 0), RTS,
            JT, N, N, RTS>>,
          {Table(SnesFromPc(6), 2, FALSE, <<SnesFromPc(8)>>)}, {}),
    \* a subroutine that calls itself
    Image("self_recursion",
          <<I("JSR", 1, SnesFromPc(2)), RTS, I("JSR", 1, SnesFromPc(2)), RTS, N>>, {}, {}),
    \* self recursion behind a conditional branch
    Image("self_recursion_guarded",
          <<I("JSR", 1, SnesFromPc(2)), RTS, I("BCC", 1, SnesFromPc(4)),
            I("JSR", 1, SnesFromPc(2)), RTS>>, {}, {}),
    \* two subroutines calling each other
    Image("mutual_recursion",
          <<I("JSR", 1, SnesFromPc(2)), RTS, I("JSR", 1, SnesFromPc(4)), RTS,
            I("JSR", 1, SnesFromPc(2)), RTS>>, {}, {}),
    \* nested calls
    Image("nested_calls",
          <<I("JSR", 1, SnesFromPc(2)), RTS, I("JSR", 1, SnesFromPc(4)), RTS, RTS, N>>, {}, {}),
    \* a branch back into the middle of its own block
    Image("jump_into_middle",
          <<I("REP", 1, 0), I("LDA", 1, 0), N, I("BCC", 1, SnesFromPc(1)), RTS, N, N>>, {}, {}),
    \* a branch into the operand of the first instruction of its block
    Image("jump_into_operand",
          <<I("LDA", 2, 0), N, I("BCC", 1, SnesFromPc(1)), RTS, N>>, {}, {}),
    \* a branch into its own operand (inside the last instruction of the block)
    Image("jump_into_last",
          <<N, I("BCC", 2, SnesFromPc(2)), N, RTS, N>>, {}, {}),
    \* two entry vectors, the second inside the operand of a branch that
    \* follows the first
    Image("entry_into_operand",
          <<RTS, N, I("BCC", 2, SnesFromPc(0)), N, RTS>>, {}, {}),
    \* a jump-table dispatch: one pointer, bytes between the table and its target
    Image("jump_table",
          <<JT, N, N, N, RTS, N>>,
          {Table(SnesFromPc(1), 2, FALSE, <<SnesFromPc(4)>>)}, {}),
    \* a jump table with a zero entry and an excluded entry
    Image("jump_table_excluded",
          <<JT, N, N, N, N, N, N, RTS>>,
          {Table(SnesFromPc(1), 6, FALSE, <<SnesFromPc(7), 0, SnesFromPc(3)>>)},
          {SnesFromPc(3)}),
    \* a jump table with a pointer below 0x8000, which LoROM maps to no ROM byte
    Image("jump_table_low_pointer",
          <<JT, N, N, N, N, RTS>>,
          {Table(SnesFromPc(1), 4, FALSE, <<SnesFromPc(5), 256>>)}, {}),
    \* a jump table with a pointer past the end of the image
    Image("jump_table_far_pointer",
          <<JT, N, N, N, N, RTS>>,
          {Table(SnesFromPc(1), 4, FALSE, <<SnesFromPc(5), SnesFromPc(40)>>)}, {}),
    \* a jump-table dispatch whose table points back at the dispatch
    Image("jump_table_loop",
          <<JT, N, N, JT, N, N>>,
          {Table(SnesFromPc(1), 2, FALSE, <<SnesFromPc(3)>>),
           Table(SnesFromPc(4), 2, FALSE, <<SnesFromPc(3)>>)}, {}),
    \* a jump table whose pointer is the address of the table itself
    Image("jump_table_self_pointer",
          <<JT, N, N, RTS>>,
          {Table(SnesFromPc(1), 2, FALSE, <<SnesFromPc(1)>>)}, {}),
    \* a jump-table dispatch at the end of a longer block
    Image("jump_table_after_code",
          <<N, N, JT, N, N, RTS>>,
          {Table(SnesFromPc(3), 2, FALSE, <<SnesFromPc(5)>>)}, {}),
    \* a jump over bytes that are never explored
    Image("jump_over_gap", <<I("BRA", 1, SnesFromPc(3)), N, N, RTS, N>>, {}, {}),
    \* a jump-table dispatch with no registry entry after it
    Image("jump_table_unknown", <<N, JT, N, N>>, {}, {}),
    \* a subroutine that only loops
    Image("sub_without_return",
          <<I("JSR", 1, SnesFromPc(2)), RTS, I("BRA", 1, SnesFromPc(2)), N>>, {}, {}),
    \* a subroutine whose last block runs into the end of the image
    Image("sub_runs_off_end", <<I("JSR", 1, SnesFromPc(2)), RTS, N>>, {}, {}),
    \* a call into RAM
    Image("ram_call", <<I("JSR", 1, RamAddr), RTS, N, N>>, {}, {}),
    \* a conditional branch over a call into RAM
    Image("branch_over_ram_call",
          <<I("BCC", 1, SnesFromPc(3)), I("REP", 1, 0), I("JSR", 1, RamAddr), RTS, N>>, {}, {}),
    \* forward branch and a jump back to an already queued block
    Image("branches",
          <<I("BCC", 1, SnesFromPc(3)), N, RTS, I("SEP", 1, 0), I("BRA", 1, SnesFromPc(1)), N>>,
          {}, {})
}

RomLen == Len(image.cells)

----------------------------------------------------------------------------
(* CodeBlock *)

\* One decoded instruction with the flag snapshot active when it was decoded.
Instruction(offset, cell, p) ==
    [offset |-> offset, op |-> cell.op, size |-> InstructionSize(cell, p),
     target |-> cell.target, m_flag |-> p.m, x_flag |-> p.x]

\* CodeBlock::from_bytes(base, rom[base..limit], processor): decode until the
\* slice is exhausted or too short for the next instruction, or an instruction
\* that can branch has been produced.
RECURSIVE Decode(_, _, _, _)
Decode(addr, limit, p, acc) ==
    IF addr >= limit \/ addr + InstructionSize(image.cells[addr + 1], p) > limit
    THEN [instructions |-> acc, processor |-> p, addr_after_block |-> addr]
    ELSE Bind(Instruction(addr, image.cells[addr + 1], p), LAMBDA i :
         Bind(Execute(p, i.op), LAMBDA p2 :
             IF can_change_program_counter(i)
             THEN [instructions |-> Append(acc, i), processor |-> p2,
                   addr_after_block |-> addr + i.size]
             ELSE Bind(Append(acc, i), LAMBDA instructions :
                  Bind(addr + i.size, LAMBDA next_addr :
                      Decode(next_addr, limit, p2, instructions)))))

from_bytes(base, limit, processor) == Decode(base, limit, processor, <<>>)

\* CodeBlock::recalculate_final_processor_state
RECURSIVE Replay(_, _)
Replay(p, instructions) ==
    IF instructions = <<>> THEN p
    ELSE Replay(Execute(p, Head(instructions).op), Tail(instructions))

\* A variant that leaves the final state of the block as it is.
keep_final_processor_state(block) == block

recalculate_final_processor_state(block) ==
    [block EXCEPT !.final_processor_state = Replay(block.entry_processor_state, block.instructions)]

CodeChunk(addr, block) == [addr |-> addr, type |-> "Code", code |-> block]

DataChunk(addr, data) == [addr |-> addr, type |-> "Data", data |-> data]

UnknownChunk(addr) == [addr |-> addr, type |-> "Unknown"]

EndOfRomChunk(addr) == [addr |-> addr, type |-> "EndOfRom"]

DataBlock(begin, size, kind) == [begin |-> begin, size |-> size, kind |-> kind]

----------------------------------------------------------------------------
(* RomAssemblyWalker.  The operators below work on a record w holding the   *)
(* walker's fields, plus res: "Ok", the DisassemblyError returned, or the   *)
(* panic raised.                                                            *)

Walker ==
    [chunks |-> chunks, analysed_chunks |-> analysed_chunks,
     remaining_steps |-> remaining_steps, analysed_code_starts |-> analysed_code_starts,
     subroutine_returns |-> subroutine_returns, analysed_subroutines |-> analysed_subroutines,
     res |-> "Ok"]

Panic(w, message) == [w EXCEPT !.res = "panic: " \o message]

IsPanic(res) == res \notin {"Ok", "InvalidAddrInCodeBlock", "SubroutineWithoutReturn"}

StepBasicBlock(code_start, processor, entrance) ==
    [type |-> "BasicBlock", code_start |-> code_start, processor |-> processor,
     entrance |-> entrance]

\* caller: the chain of enclosing StepSubroutine frames, nearest first.
StepSubroutine(code_start, entrance, caller) ==
    [type |-> "Subroutine", code_start |-> code_start, entrance |-> entrance,
     caller |-> caller]

Frame(step) == [code_start |-> step.code_start, entrance |-> step.entrance]

NewSubroutineAnalysisState(code_start) ==
    [code_blocks |-> <<>>, analysed_blocks |-> {}, remaining_blocks |-> <<code_start>>,
     final_processor_state |-> NewProcessor]

is_complete(sub) == sub.remaining_blocks = <<>>

\* A variant that looks at the callers only and not at the step itself.
sub_exists_among_callers(step, sub_addr) ==
    \E i \in 1..Len(step.caller) : step.caller[i].code_start = sub_addr

sub_exists_in_call_hierarchy(step, sub_addr) ==
    \/ step.code_start = sub_addr
    \/ \E i \in 1..Len(step.caller) : step.caller[i].code_start = sub_addr

\* A variant of the lookup that never answers Found.
find_next_chunk_at(w, instruction) ==
    LET ends == {e \in DOMAIN w.analysed_chunks : e >= instruction + 1}
    IN  IF ends = {} THEN [tag |-> "Missing"]
        ELSE [tag |-> "MissingWithNext", next_start |-> w.analysed_chunks[Min(ends)].start]

find_analysed_chunk_at(w, instruction) ==
    LET ends == {e \in DOMAIN w.analysed_chunks : e >= instruction + 1}
    IN  IF ends = {} THEN [tag |-> "Missing"]
        ELSE LET range_end == Min(ends)
                 entry == w.analysed_chunks[range_end]
             IN  IF instruction >= entry.start /\ instruction < range_end
                 THEN [tag |-> "Found", range_start |-> entry.start,
                       range_end |-> range_end, range_vec_idx |-> entry.idx]
                 ELSE [tag |-> "MissingWithNext", next_start |-> entry.start]

enqueue_basic_block(w, step) ==
    IF step.code_start \notin w.analysed_code_starts
    THEN [w EXCEPT !.analysed_code_starts = @ \cup {step.code_start},
                   !.remaining_steps = <<step>> \o @]
    ELSE w

\* The value enqueue_subroutine returns.
subroutine_is_new(w, step) == step.code_start \notin DOMAIN w.analysed_subroutines

enqueue_subroutine(w, step) ==
    IF subroutine_is_new(w, step)
    THEN [w EXCEPT !.remaining_steps = <<step>> \o @]
    ELSE w

PushChunk(w, chunk) == [w EXCEPT !.chunks = Append(@, chunk)]

\* subroutine_returns.entry(sub).or_default().push(addr)
push_return(w, sub, addr) ==
    [w EXCEPT !.subroutine_returns =
        MapInsert(@, sub, Append(IF sub \in DOMAIN @ THEN @[sub] ELSE <<>>, addr))]

\* A variant of the split whose second half gets the splitting entrance alone
\* and whose first half keeps the exits of the original.
split_without_links(w, range_start, range_end, range_vec_idx, middle_start, entrance) ==
    LET block  == w.chunks[range_vec_idx].code
        first_instructions  == SelectSeq(block.instructions, LAMBDA i : i.offset < middle_start)
        second_instructions == SelectSeq(block.instructions, LAMBDA i : ~(i.offset < middle_start))
        first_block == recalculate_final_processor_state(
            [block EXCEPT !.instructions = first_instructions])
        second_block ==
            [block EXCEPT !.instructions = second_instructions,
                          !.entrances = <<entrance>>,
                          !.entry_processor_state = first_block.final_processor_state]
        new_chunks == Append([w.chunks EXCEPT ![range_vec_idx] = CodeChunk(middle_start, second_block)],
                             CodeChunk(range_start, first_block))
    IN  [w EXCEPT
           !.chunks = new_chunks,
           !.analysed_chunks =
               MapInsert(MapInsert(MapRemove(@, range_end), range_end,
                                   [start |-> middle_start, idx |-> range_vec_idx]),
                         middle_start, [start |-> range_start, idx |-> Len(new_chunks)]),
           !.analysed_code_starts = @ \cup {middle_start}]

\* A variant of the split that stores the two halves as the variant above does
\* and leaves the range index as it was.
split_without_index(w, range_start, range_end, range_vec_idx, middle_start, entrance) ==
    [split_without_links(w, range_start, range_end, range_vec_idx, middle_start, entrance)
        EXCEPT !.analysed_chunks = w.analysed_chunks]

split_block_at(w, range_start, range_end, range_vec_idx, middle_start, entrance) ==
    LET original == w.chunks[range_vec_idx]
    IN  IF original.type # "Code"
        THEN Panic(w, "Found jump into the middle of a non-code section")
        ELSE IF original.addr # range_start THEN Panic(w, "assert_eq original_pc range_start")
        ELSE
        LET block  == original.code
            first_instructions  == SelectSeq(block.instructions, LAMBDA i : i.offset < middle_start)
            second_instructions == SelectSeq(block.instructions, LAMBDA i : ~(i.offset < middle_start))
        IN  IF first_instructions = <<>> THEN Panic(w, "unwrap on an empty first block")
            ELSE
            LET first_block == recalculate_final_processor_state(
                    [instructions |-> first_instructions,
                     exits |-> <<SnesFromPc(middle_start)>>,
                     entrances |-> block.entrances,
                     entry_processor_state |-> block.entry_processor_state,
                     final_processor_state |-> DefaultProcessor])
                second_block ==
                    [instructions |-> second_instructions,
                     exits |-> block.exits,
                     entrances |-> <<entrance, SnesFromPc(Last(first_instructions).offset)>>,
                     entry_processor_state |-> first_block.final_processor_state,
                     final_processor_state |-> block.final_processor_state]
                new_chunks == Append([w.chunks EXCEPT ![range_vec_idx] = CodeChunk(middle_start, second_block)],
                                     CodeChunk(range_start, first_block))
            IN  [w EXCEPT
                   !.chunks = new_chunks,
                   !.analysed_chunks =
                       MapInsert(MapInsert(MapRemove(@, range_end), range_end,
                                           [start |-> middle_start, idx |-> range_vec_idx]),
                                 middle_start, [start |-> range_start, idx |-> Len(new_chunks)]),
                   !.analysed_code_starts = @ \cup {middle_start}]

\* A variant that pushes the Code chunk alone: no range index entry and no
\* Unknown chunk after it.
commit_code_only(w, code_start, code_block, addr_after_block, next_covered) ==
    PushChunk(w, CodeChunk(code_start, code_block))

\* Lines 539-543 (and 503-507): the block becomes a Code chunk, indexed by its
\* end, followed by an Unknown chunk unless the fall-through is a successor.
commit_block(w, code_start, code_block, addr_after_block, next_covered) ==
    LET w1 == PushChunk(w, CodeChunk(code_start, code_block))
        w2 == [w1 EXCEPT !.analysed_chunks =
                  MapInsert(@, addr_after_block, [start |-> code_start, idx |-> Len(w1.chunks)])]
    IN  IF ~next_covered THEN PushChunk(w2, UnknownChunk(addr_after_block)) ELSE w2

\* A variant that drops the zero entries but keeps the excluded pointers.
nonzero_pointers(jtv) == SelectSeq(jtv.ptrs, LAMBDA a : a % 65536 # 0)

\* The pointers of a registered jump table that count as code addresses.
jump_table_targets(jtv) ==
    SelectSeq(jtv.ptrs, LAMBDA a : a % 65536 # 0 /\ a \notin image.non_code)

\* A variant of the call site that enqueues the return address at once, with
\* the flag state of the call site.
call_site_without_waiting(w, step_following_block, target, addr_after_block) ==
    IF SnesIsValidLoRom(target)
    THEN enqueue_basic_block(push_return(w, PcFromSnes(target), addr_after_block),
                             step_following_block)
    ELSE enqueue_basic_block(w, step_following_block)

\* A variant of the call site that enqueues nothing for a target outside ROM.
call_site_in_rom_only(w, step_following_block, target, addr_after_block) ==
    IF SnesIsValidLoRom(target)
    THEN LET sub_start == PcFromSnes(target)
             w1 == push_return(w, sub_start, addr_after_block)
         IN  IF sub_start \in DOMAIN w.analysed_subroutines
                /\ is_complete(w.analysed_subroutines[sub_start])
             THEN enqueue_basic_block(w1,
                    [step_following_block EXCEPT
                        !.processor = w.analysed_subroutines[sub_start].final_processor_state])
             ELSE w1
    ELSE w

\* Lines 476-496: a block ending in a subroutine call.
call_site(w, step_following_block, target, addr_after_block) ==
    IF SnesIsValidLoRom(target)
    THEN LET sub_start == PcFromSnes(target)
             w1 == push_return(w, sub_start, addr_after_block)
         IN  IF sub_start \in DOMAIN w.analysed_subroutines
                /\ is_complete(w.analysed_subroutines[sub_start])
             THEN enqueue_basic_block(w1,
                    [step_following_block EXCEPT
                        !.processor = w.analysed_subroutines[sub_start].final_processor_state])
             ELSE w1
    ELSE enqueue_basic_block(w, step_following_block)

\* Lines 498-524: every successor becomes a BasicBlock step; one that lies
\* beyond the image commits the block and fails.  c is the block under analysis.
RECURSIVE walk_successors(_, _, _, _, _, _)
walk_successors(w, c, targets, i, exits, next_covered) ==
    IF i > Len(targets)
    THEN [w |-> w, exits |-> exits, next_covered |-> next_covered]
    ELSE IF ~SnesIsValidLoRom(targets[i])
    THEN walk_successors(w, c, targets, i + 1, exits, next_covered)
    ELSE IF PcFromSnes(targets[i]) >= RomLen
    THEN [w |-> [commit_block(w, c.code_start, [c.code_block EXCEPT !.exits = exits],
                              c.addr_after_block, next_covered)
                    EXCEPT !.res = "InvalidAddrInCodeBlock"],
          exits |-> exits, next_covered |-> next_covered]
    ELSE Bind(enqueue_basic_block(w, StepBasicBlock(PcFromSnes(targets[i]), c.processor,
                                                    SnesFromPc(c.code_start))),
              LAMBDA w1 :
         Bind(Append(exits, targets[i]), LAMBDA exits1 :
         Bind(next_covered \/ PcFromSnes(targets[i]) = c.addr_after_block, LAMBDA covered :
             walk_successors(w1, c, targets, i + 1, exits1, covered))))

\* Lines 526-536: a Subroutine step for every target of a call or dispatch.
RECURSIVE enqueue_subroutines(_, _, _, _)
enqueue_subroutines(w, targets, i, entrance) ==
    IF i > Len(targets) THEN w
    ELSE Bind(IF SnesIsValidLoRom(targets[i])
              THEN enqueue_subroutine(w, StepSubroutine(PcFromSnes(targets[i]), entrance, <<>>))
              ELSE w,
              LAMBDA w1 : enqueue_subroutines(w1, targets, i + 1, entrance))

\* Lines 438-545: the block decoded from code_start.
analyse_decoded_block(w, step, d) ==
    LET code_start == step.code_start
        last_instruction == Last(d.instructions)
        addr_after_block == d.addr_after_block
        code_block == [instructions |-> d.instructions, exits |-> <<>>,
                       entrances |-> <<step.entrance>>,
                       entry_processor_state |-> step.processor,
                       final_processor_state |-> d.processor]
    IN  IF ~can_change_program_counter(last_instruction)
        THEN commit_block(w, code_start, code_block, addr_after_block, FALSE)
        ELSE
        LET is_jump_table == uses_jump_table(last_instruction)
            found_tables == {t \in image.tables : t.begin = SnesFromPc(addr_after_block)}
            jtv == CHOOSE t \in found_tables : TRUE
            processor == IF is_jump_table THEN [m |-> TRUE, x |-> TRUE] ELSE d.processor
        IN  Bind(IF ~is_jump_table THEN next_instructions(last_instruction)
                 ELSE IF found_tables = {} THEN <<>>
                 ELSE jump_table_targets(jtv),
                 LAMBDA targets :
            Bind(IF is_jump_table
                 THEN IF found_tables = {} THEN w
                      ELSE PushChunk(w, DataChunk(addr_after_block,
                              DataBlock(jtv.begin, jtv.length,
                                        IF jtv.long_ptrs THEN "JumpTableLong" ELSE "JumpTable")))
                 ELSE IF is_subroutine_call(last_instruction)
                 THEN call_site(w, StepBasicBlock(addr_after_block, processor, SnesFromPc(code_start)),
                                targets[1], addr_after_block)
                 ELSE w,
                 LAMBDA w1 :
            Bind(walk_successors(w1,
                    [code_start |-> code_start, code_block |-> code_block,
                     addr_after_block |-> addr_after_block, processor |-> processor],
                    targets, 1, <<>>, FALSE),
                 LAMBDA r :
                IF r.w.res # "Ok" THEN r.w
                ELSE Bind(IF is_jump_table \/ is_subroutine_call(last_instruction)
                          THEN enqueue_subroutines(r.w, targets, 1,
                                                   SnesFromPc(last_instruction.offset))
                          ELSE r.w,
                          LAMBDA w2 :
                         commit_block(w2, code_start, [code_block EXCEPT !.exits = r.exits],
                                      addr_after_block, r.next_covered)))))

analyse_basic_block(w, step) ==
    Bind(find_analysed_chunk_at(w, step.code_start), LAMBDA found :
        IF found.tag = "Found"
        THEN IF step.code_start # found.range_start
             THEN split_block_at(w, found.range_start, found.range_end, found.range_vec_idx,
                                 step.code_start, step.entrance)
             ELSE w
        ELSE
        LET next_known_start == IF found.tag = "MissingWithNext" THEN found.next_start ELSE RomLen
        IN  IF step.code_start > next_known_start
            THEN Panic(w, "slice index starts after its end")
            ELSE Bind(from_bytes(step.code_start, next_known_start, step.processor), LAMBDA d :
                     IF d.instructions = <<>>
                     THEN Panic(w, "Empty (invalid) code block")
                     ELSE analyse_decoded_block(w, step, d)))

----------------------------------------------------------------------------
(* analyse_subroutine *)

\* Lines 369-374: the exits not yet in analysed_blocks, each inserted once.
RECURSIVE pending_exits(_, _, _, _)
pending_exits(sub, exits, i, pending) ==
    IF i > Len(exits)
    THEN [sub EXCEPT !.remaining_blocks = @ \o pending]
    ELSE IF PcFromSnes(exits[i]) \in sub.analysed_blocks
    THEN pending_exits(sub, exits, i + 1, pending)
    ELSE pending_exits([sub EXCEPT !.analysed_blocks = @ \cup {PcFromSnes(exits[i])}],
                       exits, i + 1, Append(pending, PcFromSnes(exits[i])))

\* Lines 378-380: the block after this one, unless the block never falls through.
push_block_after(sub, last_instruction, addr_after_block) ==
    IF ~is_single_path_leap(last_instruction) /\ addr_after_block \notin sub.analysed_blocks
    THEN [sub EXCEPT !.analysed_blocks = @ \cup {addr_after_block},
                     !.remaining_blocks = Append(@, addr_after_block)]
    ELSE sub

\* A variant of the suspension that does not put the block back.
suspend_dropping_block(w, sub, step, curr_code_start) ==
    [w |-> [w EXCEPT !.remaining_steps = Append(@, step)],
     sub |-> sub,
     outcome |-> "returned"]

\* Lines 382-386: the block is not known yet; the step re-queues itself.
suspend(w, sub, step, curr_code_start) ==
    [w |-> [w EXCEPT !.remaining_steps = Append(@, step)],
     sub |-> [sub EXCEPT !.remaining_blocks = Append(@, curr_code_start)],
     outcome |-> "returned"]

\* Lines 331-388: the loop over remaining_blocks.  outcome is "drained" when
\* the loop ran to its end and "returned" when the function returned Ok early.
RECURSIVE drain_remaining_blocks(_, _, _)

\* The next iteration of the loop, on the walker and the record as they are now.
next_block(w, sub, step) ==
    Bind(w, LAMBDA walker : Bind(sub, LAMBDA record :
        drain_remaining_blocks(walker, record, step)))

drain_remaining_blocks(w, sub, step) ==
    IF sub.remaining_blocks = <<>>
    THEN [w |-> w, sub |-> sub, outcome |-> "drained"]
    ELSE
    LET curr_code_start == Last(sub.remaining_blocks)
        popped == [sub EXCEPT !.remaining_blocks = SubSeq(@, 1, Len(@) - 1)]
        found  == find_analysed_chunk_at(w, curr_code_start)
    IN  IF found.tag # "Found"
        THEN suspend(w, popped, step, curr_code_start)
        ELSE
        LET sub1  == [popped EXCEPT !.code_blocks = Append(@, found.range_vec_idx)]
            chunk == w.chunks[found.range_vec_idx]
        IN  IF chunk.type # "Code" \/ chunk.code.instructions = <<>>
            THEN [w |-> Panic(w, "unwrap on a chunk without instructions"),
                  sub |-> sub1, outcome |-> "returned"]
            ELSE
            LET block == chunk.code
                last_instruction == Last(block.instructions)
                addr_after_block == last_instruction.offset + last_instruction.size
            IN  IF uses_jump_table(last_instruction)
                THEN next_block(w, sub1, step)
                ELSE IF block.exits # <<>> /\ is_subroutine_call(last_instruction)
                THEN LET sub_location == PcFromSnes(block.exits[1])
                         w1 == push_return(w, sub_location, addr_after_block)
                         next_step == StepSubroutine(sub_location,
                                          SnesFromPc(last_instruction.offset),
                                          <<Frame(step)>> \o step.caller)
                     IN  IF sub_exists_in_call_hierarchy(step, sub_location)
                         THEN next_block(
                                 enqueue_basic_block(w1,
                                     StepBasicBlock(addr_after_block, sub1.final_processor_state,
                                                    step.entrance)),
                                 push_block_after(sub1, last_instruction, addr_after_block), step)
                         ELSE IF subroutine_is_new(w1, next_step)
                         THEN [w |-> enqueue_subroutine(w1, next_step),
                               sub |-> [sub1 EXCEPT !.remaining_blocks = Append(@, addr_after_block)],
                               outcome |-> "returned"]
                         ELSE next_block(w1,
                                 push_block_after(sub1, last_instruction, addr_after_block), step)
                ELSE IF block.exits # <<>> /\ ~is_subroutine_return(last_instruction)
                THEN next_block(w,
                        push_block_after(pending_exits(sub1, block.exits, 1, <<>>),
                                         last_instruction, addr_after_block), step)
                ELSE next_block(w,
                        push_block_after(sub1, last_instruction, addr_after_block), step)

\* A variant of the search that takes the first block whatever it ends in.
first_block(w, code_blocks, i) ==
    IF code_blocks = <<>> THEN 0 ELSE code_blocks[1]

\* Lines 390-393: the first block of the subroutine that ends in a return or a
\* jump-table dispatch: its index, 0 when there is none, -1 when the search
\* unwraps a chunk without instructions.
RECURSIVE find_returning_block(_, _, _)
find_returning_block(w, code_blocks, i) ==
    IF i > Len(code_blocks) THEN 0
    ELSE LET chunk == w.chunks[code_blocks[i]]
         IN  IF chunk.type # "Code" \/ chunk.code.instructions = <<>> THEN -1
             ELSE IF is_subroutine_return(Last(chunk.code.instructions))
                     \/ uses_jump_table(Last(chunk.code.instructions))
             THEN code_blocks[i]
             ELSE find_returning_block(w, code_blocks, i + 1)

\* A variant of the completion that resumes no call site.
forget_returns(w, returns, i, processor, entrance) == w

\* Lines 406-414: resume every call site that waits for this subroutine.
RECURSIVE resume_returns(_, _, _, _, _)
resume_returns(w, returns, i, processor, entrance) ==
    IF i > Len(returns) THEN w
    ELSE Bind(enqueue_basic_block(w, StepBasicBlock(returns[i], processor, entrance)),
              LAMBDA w1 : resume_returns(w1, returns, i + 1, processor, entrance))

StoreSub(w, key, sub) == [w EXCEPT !.analysed_subroutines = MapInsert(@, key, sub)]

\* Lines 390-416: the subroutine is drained.
complete_subroutine(w, sub, step) ==
    LET returning_block_index == find_returning_block(w, sub.code_blocks, 1)
    IN  IF returning_block_index = -1
        THEN Panic(StoreSub(w, step.code_start, sub), "unwrap on a chunk without instructions")
        ELSE IF returning_block_index = 0
        THEN [StoreSub(w, step.code_start, sub) EXCEPT !.res = "SubroutineWithoutReturn"]
        ELSE
        LET done == [sub EXCEPT !.final_processor_state =
                        w.chunks[returning_block_index].code.final_processor_state]
            w1 == StoreSub(w, step.code_start, done)
        IN  Bind(IF step.caller # <<>>
                 THEN enqueue_subroutine(w1,
                         StepSubroutine(Head(step.caller).code_start, Head(step.caller).entrance,
                                        Tail(step.caller)))
                 ELSE w1,
                 LAMBDA w2 :
                IF step.code_start \in DOMAIN w2.subroutine_returns
                THEN resume_returns(w2, w2.subroutine_returns[step.code_start], 1,
                                    done.final_processor_state, step.entrance)
                ELSE w2)

analyse_subroutine(w, step) ==
    LET sub0 == IF step.code_start \in DOMAIN w.analysed_subroutines
                THEN w.analysed_subroutines[step.code_start]
                ELSE NewSubroutineAnalysisState(step.code_start)
    IN  Bind(next_block(StoreSub(w, step.code_start, sub0), sub0, step), LAMBDA r :
            IF r.outcome = "returned"
            THEN StoreSub(r.w, step.code_start, r.sub)
            ELSE complete_subroutine(r.w, r.sub, step))

----------------------------------------------------------------------------
(* cleanup *)

\* sort_by_key: a stable sort by start address.
RECURSIVE sort_by_address(_, _)
sort_by_address(cs, addresses) ==
    IF addresses = {} THEN <<>>
    ELSE Bind(Min(addresses), LAMBDA least :
             SelectSeq(cs, LAMBDA c : c.addr = least)
             \o Bind(addresses \ {least}, LAMBDA others : sort_by_address(cs, others)))

\* The chunk kept for one group of same-address chunks: a non-Unknown chunk
\* replaces an Unknown one; type "Panic" stands for the panic on two non-Unknown.
RECURSIVE dedup_group(_, _, _)
dedup_group(final_chunk, group, i) ==
    IF i > Len(group) THEN final_chunk
    ELSE IF final_chunk.type = "Unknown" THEN dedup_group(group[i], group, i + 1)
    ELSE IF group[i].type = "Unknown" THEN dedup_group(final_chunk, group, i + 1)
    ELSE [addr |-> final_chunk.addr, type |-> "Panic"]

RECURSIVE dedup_chunks(_)
dedup_chunks(sorted) ==
    IF sorted = <<>> THEN <<>>
    ELSE Bind(SelectSeq(sorted, LAMBDA c : c.addr = Head(sorted).addr), LAMBDA group :
             <<dedup_group(group[1], group, 2)>>
             \o Bind(SubSeq(sorted, Len(group) + 1, Len(sorted)),
                     LAMBDA others : dedup_chunks(others)))

\* A variant that sorts and appends the sentinel but keeps duplicate addresses.
cleanup_without_dedup(cs) ==
    LET pushed == Append(cs, EndOfRomChunk(RomLen))
    IN  sort_by_address(pushed, {pushed[i].addr : i \in 1..Len(pushed)})

cleanup(cs) ==
    LET pushed == Append(cs, EndOfRomChunk(RomLen))
    IN  Bind(sort_by_address(pushed, {pushed[i].addr : i \in 1..Len(pushed)}),
             LAMBDA sorted : dedup_chunks(sorted))

----------------------------------------------------------------------------
(* full_analysis as a function of the walker *)

\* full_analysis's loop: pop the front step and analyse it until the worklist
\* is empty or a step returns an error.  fuel bounds the number of steps; a
\* run that needs more gets res "unfinished".
RECURSIVE run_steps(_, _)
run_steps(w, fuel) ==
    IF w.res # "Ok" \/ w.remaining_steps = <<>> THEN w
    ELSE IF fuel = 0 THEN [w EXCEPT !.res = "unfinished"]
    ELSE Bind(Head(w.remaining_steps), LAMBDA step :
         Bind([w EXCEPT !.remaining_steps = Tail(@)], LAMBDA popped :
         Bind(IF step.type = "BasicBlock" THEN analyse_basic_block(popped, step)
              ELSE analyse_subroutine(popped, step), LAMBDA w1 :
              run_steps(w1, fuel - 1))))

\* full_analysis: the loop, then cleanup.
full_analysis(w) ==
    Bind(run_steps(w, MaxSteps), LAMBDA w1 :
        IF w1.res # "Ok" THEN w1
        ELSE Bind(cleanup(w1.chunks), LAMBDA cs :
                 IF \E i \in 1..Len(cs) : cs[i].type = "Panic"
                 THEN [w1 EXCEPT !.chunks = cs,
                                 !.res = "panic: Multiple chunks generated at address"]
                 ELSE [w1 EXCEPT !.chunks = cs]))

----------------------------------------------------------------------------
(* RomDisassembly::data_block_at *)

\* SnesSlice::contains: begin <= addr < begin + size, on logical addresses.
slice_contains(data_block, addr) ==
    data_block.begin <= addr /\ addr < data_block.begin + data_block.size

NotFound == [tag |-> "DataBlockNotFound"]

\* Lines 137-177: the first window (chunk i, chunk i+1) that decides the request.
RECURSIVE find_split(_, _, _)
find_split(cs, data_block, i) ==
    IF i >= Len(cs) THEN NotFound
    ELSE IF cs[i].addr = PcFromSnes(data_block.begin)
    THEN CASE cs[i].type \in {"Code", "EndOfRom"} -> NotFound
           [] cs[i].type = "Data" ->
                IF cs[i].data # data_block THEN NotFound ELSE [tag |-> "None"]
           [] cs[i].type = "Unknown" ->
                IF slice_contains(data_block, SnesFromPc(cs[i + 1].addr))
                THEN NotFound
                ELSE [tag |-> "Start", index |-> i]
    ELSE IF cs[i].addr < PcFromSnes(data_block.begin)
            /\ PcFromSnes(data_block.begin) < cs[i + 1].addr
    THEN [tag |-> "Middle", index |-> i]
    ELSE find_split(cs, data_block, i + 1)

\* A variant whose Middle split inserts the Data chunk alone and never the
\* Unknown remainder.
apply_split_without_tail(cs, data_block, split_type) ==
    LET begin_pc == PcFromSnes(data_block.begin)
    IN  CASE split_type.tag = "Start" ->
               [chunks |-> InsertAt([cs EXCEPT ![split_type.index].addr = @ + data_block.size],
                                    split_type.index, DataChunk(begin_pc, data_block)),
                outcome |-> "Ok"]
          [] split_type.tag = "Middle" ->
               [chunks |-> InsertAt(cs, split_type.index + 1, DataChunk(begin_pc, data_block)),
                outcome |-> "Ok"]
          [] OTHER -> [chunks |-> cs, outcome |-> "Ok"]

\* Lines 179-200: the split found is applied to the chunk vector.
apply_split(cs, data_block, split_type) ==
    LET begin_pc == PcFromSnes(data_block.begin)
        data_end == begin_pc + data_block.size
    IN  CASE split_type.tag = "Start" ->
               [chunks |-> InsertAt([cs EXCEPT ![split_type.index].addr = @ + data_block.size],
                                    split_type.index, DataChunk(begin_pc, data_block)),
                outcome |-> "Ok"]
          [] split_type.tag = "Middle" ->
               IF ~(data_end <= cs[split_type.index + 1].addr)
               THEN [chunks |-> cs, outcome |-> "panic: data_end <= next_begin"]
               ELSE LET with_data == InsertAt(cs, split_type.index + 1,
                                              DataChunk(begin_pc, data_block))
                    IN  [chunks |-> IF data_end < cs[split_type.index + 1].addr
                                    THEN InsertAt(with_data, split_type.index + 2,
                                                  UnknownChunk(data_end))
                                    ELSE with_data,
                         outcome |-> "Ok"]
          [] OTHER -> [chunks |-> cs, outcome |-> "Ok"]

\* The whole call: the chunk vector, the cache and the outcome it leaves.
data_block_at(cs, cache, data_block) ==
    IF data_block \in cache
    THEN [chunks |-> cs, cache |-> cache, outcome |-> "Ok"]
    ELSE IF ~SnesIsValidLoRom(data_block.begin)
    THEN [chunks |-> cs, cache |-> cache, outcome |-> "panic: unwrap on an AddressError"]
    ELSE
    LET split_type == find_split(cs, data_block, 1)
    IN  IF split_type = NotFound
        THEN [chunks |-> cs, cache |-> cache, outcome |-> "DataBlockNotFound"]
        ELSE LET applied == apply_split(cs, data_block, split_type)
             IN  [chunks |-> applied.chunks,
                  cache |-> IF applied.outcome = "Ok" THEN cache \cup {data_block} ELSE cache,
                  outcome |-> applied.outcome]

----------------------------------------------------------------------------
(* The state machine. *)

DataKinds == {"Graphics", "JumpTable"}

\* The data blocks callers may ask for on the image under analysis.
Requests ==
    {DataBlock(begin, size, kind) :
        begin \in {SnesFromPc(a) : a \in 0..RomLen} \cup {RamAddr},
        size \in 1..MaxSize, kind \in DataKinds}

\* RomAssemblyWalker::new: one BasicBlock step per entry address, AddrSnes::MIN
\* first, each with a fresh processor.
InitialSteps(vectors) ==
    [i \in 1..(Len(vectors) + 1) |->
        StepBasicBlock(IF i = 1 THEN 0 ELSE vectors[i - 1], NewProcessor,
                       SnesFromPc(IF i = 1 THEN 0 ELSE vectors[i - 1]))]

VectorLists(img, n) == UNION {[1..k -> 0..(Len(img.cells) - 1)] : k \in 0..n}

InitWith(n) ==
    /\ image \in Images
    /\ \E vectors \in VectorLists(image, n) : remaining_steps = InitialSteps(vectors)
    /\ status = "walking"
    /\ error = "none"
    /\ chunks = <<>>
    /\ analysed_chunks = EmptyMap
    /\ analysed_code_starts = {}
    /\ subroutine_returns = EmptyMap
    /\ analysed_subroutines = EmptyMap
    /\ cached_data_blocks = {}
    /\ calls = 0
    /\ last = [op |-> "new"]

Init == InitWith(MaxVectors)

\* The walker's fields after one step of full_analysis's loop.
SetWalker(w) ==
    /\ chunks' = w.chunks
    /\ analysed_chunks' = w.analysed_chunks
    /\ remaining_steps' = w.remaining_steps
    /\ analysed_code_starts' = w.analysed_code_starts
    /\ subroutine_returns' = w.subroutine_returns
    /\ analysed_subroutines' = w.analysed_subroutines
    /\ status' = IF w.res = "Ok" THEN "walking"
                 ELSE IF IsPanic(w.res) THEN "panicked" ELSE "failed"
    /\ error' = IF w.res = "Ok" THEN "none" ELSE w.res

Popped == [Walker EXCEPT !.remaining_steps = Tail(@)]

\* full_analysis, loop body: the front step is a BasicBlock step.
BasicBlockStep ==
    /\ status = "walking"
    /\ remaining_steps # <<>>
    /\ Head(remaining_steps).type = "BasicBlock"
    /\ \E w \in {analyse_basic_block(Popped, Head(remaining_steps))} : SetWalker(w)
    /\ last' = [op |-> "analyse_basic_block", step |-> Head(remaining_steps)]
    /\ UNCHANGED <<image, cached_data_blocks, calls>>

\* full_analysis, loop body: the front step is a Subroutine step.
SubroutineStep ==
    /\ status = "walking"
    /\ remaining_steps # <<>>
    /\ Head(remaining_steps).type = "Subroutine"
    /\ \E w \in {analyse_subroutine(Popped, Head(remaining_steps))} : SetWalker(w)
    /\ last' = [op |-> "analyse_subroutine", step |-> Head(remaining_steps)]
    /\ UNCHANGED <<image, cached_data_blocks, calls>>

\* full_analysis, after the loop: cleanup, then Ok.
Cleanup ==
    /\ status = "walking"
    /\ remaining_steps = <<>>
    /\ chunks' = cleanup(chunks)
    /\ status' = IF \E i \in 1..Len(chunks') : chunks'[i].type = "Panic"
                 THEN "panicked" ELSE "finalized"
    /\ error' = IF status' = "panicked"
                THEN "panic: Multiple chunks generated at address" ELSE "none"
    /\ last' = [op |-> "cleanup"]
    /\ UNCHANGED <<image, analysed_chunks, remaining_steps, analysed_code_starts,
                   subroutine_returns, analysed_subroutines, cached_data_blocks, calls>>

\* A caller registers a data block on the finished disassembly.
DataBlockAt ==
    /\ status = "finalized"
    /\ calls < MaxCalls
    /\ \E data_block \in Requests :
          LET r == data_block_at(chunks, cached_data_blocks, data_block)
          IN  /\ chunks' = r.chunks
              /\ cached_data_blocks' = r.cache
              /\ status' = IF r.outcome \in {"Ok", "DataBlockNotFound"}
                           THEN "finalized" ELSE "panicked"
              /\ error' = IF r.outcome = "Ok" THEN "none" ELSE r.outcome
              /\ last' = [op |-> "data_block_at", data_block |-> data_block,
                          outcome |-> r.outcome, before |-> chunks,
                          cache_before |-> cached_data_blocks]
    /\ calls' = calls + 1
    /\ UNCHANGED <<image, analysed_chunks, remaining_steps, analysed_code_starts,
                   subroutine_returns, analysed_subroutines>>

WalkNext == BasicBlockStep \/ SubroutineStep \/ Cleanup

Next == BasicBlockStep \/ SubroutineStep \/ Cleanup \/ DataBlockAt

\* The walk alone, from every image with up to MaxVectors extra entry vectors.
Spec == Init /\ [][WalkNext]_vars

\* The same walk; full_analysis's loop runs while there is a step to take.
FairSpec == Init /\ [][WalkNext]_vars /\ WF_vars(WalkNext)

\* The walk from the reset vector alone, followed by data_block_at calls.
InitData == InitWith(0)

DataSpec == InitData /\ [][Next]_vars

----------------------------------------------------------------------------
(* Address conversions on their own: a value of one address space is       *)
(* converted back and forth; last.trail holds the values obtained so far.   *)

\* AddrPc::try_from_lorom
AddrPc_try_from_lorom(a) ==
    IF SnesIsValidLoRom(a)
    THEN [ok |-> TRUE, kind |-> "AddrPc", value |-> PcFromSnes(a)]
    ELSE [ok |-> FALSE, kind |-> "InvalidSnesLoRom", value |-> a]

\* AddrSnes::try_from_lorom
AddrSnes_try_from_lorom(pc) ==
    IF PcIsValidLoRom(pc)
    THEN [ok |-> TRUE, kind |-> "AddrSnes", value |-> SnesFromPc(pc)]
    ELSE [ok |-> FALSE, kind |-> "InvalidPcLoRom", value |-> pc]

\* Offsets within a 32 KiB ROM bank and within a 64 KiB logical bank.
PcOffsets == {0, 1, 32767}

SnesOffsets == {0, 1, 32767, 32768, 32769, 65535}

\* Linear offsets: the first, second and last byte of every 32 KiB bank.
PcInputs == {k * 32768 + o : k \in 0..MaxPcBank, o \in PcOffsets}

\* Logical addresses: both halves of every 64 KiB bank.
SnesInputs == {b * 65536 + o : b \in 0..MaxSnesBank, o \in SnesOffsets}

InitAddr ==
    /\ image = CHOOSE img \in Images : img.name = "linear"
    /\ remaining_steps = <<>>
    /\ status = "addresses"
    /\ error = "none"
    /\ chunks = <<>>
    /\ analysed_chunks = EmptyMap
    /\ analysed_code_starts = {}
    /\ subroutine_returns = EmptyMap
    /\ analysed_subroutines = EmptyMap
    /\ cached_data_blocks = {}
    /\ calls = 0
    /\ last = [op |-> "addresses", trail |-> <<>>]

\* A caller holds a linear offset.
TakePc ==
    /\ status = "addresses"
    /\ last.trail = <<>>
    /\ \E pc \in PcInputs :
          last' = [op |-> "addresses",
                   trail |-> <<[ok |-> TRUE, kind |-> "AddrPc", value |-> pc]>>]
    /\ UNCHANGED <<image, status, error, chunks, analysed_chunks, remaining_steps,
                   analysed_code_starts, subroutine_returns, analysed_subroutines,
                   cached_data_blocks, calls>>

\* A caller holds a logical address.
TakeSnes ==
    /\ status = "addresses"
    /\ last.trail = <<>>
    /\ \E a \in SnesInputs :
          last' = [op |-> "addresses",
                   trail |-> <<[ok |-> TRUE, kind |-> "AddrSnes", value |-> a]>>]
    /\ UNCHANGED <<image, status, error, chunks, analysed_chunks, remaining_steps,
                   analysed_code_starts, subroutine_returns, analysed_subroutines,
                   cached_data_blocks, calls>>

\* AddrSnes::try_from(pc) on the linear offset obtained last.
ToSnes ==
    /\ status = "addresses"
    /\ last.trail # <<>>
    /\ Len(last.trail) < MaxTrail
    /\ Last(last.trail).kind = "AddrPc"
    /\ last' = [last EXCEPT !.trail = Append(@, AddrSnes_try_from_lorom(Last(@).value))]
    /\ UNCHANGED <<image, status, error, chunks, analysed_chunks, remaining_steps,
                   analysed_code_starts, subroutine_returns, analysed_subroutines,
                   cached_data_blocks, calls>>

\* AddrPc::try_from(a) on the logical address obtained last.
ToPc ==
    /\ status = "addresses"
    /\ last.trail # <<>>
    /\ Len(last.trail) < MaxTrail
    /\ Last(last.trail).kind = "AddrSnes"
    /\ last' = [last EXCEPT !.trail = Append(@, AddrPc_try_from_lorom(Last(@).value))]
    /\ UNCHANGED <<image, status, error, chunks, analysed_chunks, remaining_steps,
                   analysed_code_starts, subroutine_returns, analysed_subroutines,
                   cached_data_blocks, calls>>

AddrNext == TakePc \/ TakeSnes \/ ToSnes \/ ToPc

\* Conversions applied to addresses of either space, and to their results.
AddrSpec == InitAddr /\ [][AddrNext]_vars

----------------------------------------------------------------------------
(* Properties of the chunk store. *)

StrictlySorted(cs) == \A i \in 1..(Len(cs) - 1) : cs[i].addr < cs[i + 1].addr

EndsWithSentinel(cs) ==
    cs # <<>> /\ Last(cs).type = "EndOfRom" /\ Last(cs).addr = RomLen

\* The linear range a data block asks for.
RequestBegin(data_block) == PcFromSnes(data_block.begin)

RequestEnd(data_block) == PcFromSnes(data_block.begin) + data_block.size

\* Chunk i of cs (not the last one) shares at least one byte with the request.
Overlaps(cs, i, data_block) ==
    /\ i < Len(cs)
    /\ cs[i].addr < RequestEnd(data_block)
    /\ RequestBegin(data_block) < cs[i + 1].addr

CalledDataBlockAt == last.op = "data_block_at"

\* C1: once full_analysis has returned Ok, chunks is sorted by strictly
\* increasing start address, starts at linear address 0 and ends with the
\* EndOfRom sentinel at the image length, so that the ranges [start, next start)
\* partition [0, image length].
C1_FinalizedStoreIsPartition ==
    (status = "finalized" /\ last.op = "cleanup") =>
        /\ StrictlySorted(chunks)
        /\ chunks[1].addr = 0
        /\ EndsWithSentinel(chunks)

\* A finalized store in which cleanup had to reorder and to drop an Unknown
\* entry that shared its start address with a Code entry.
C1_Witness ==
    /\ status = "finalized"
    /\ last.op = "cleanup"
    /\ Len(chunks) >= 4
    /\ Cardinality(DOMAIN analysed_chunks) >= 3
    /\ \E i \in 1..Len(chunks) : chunks[i].type = "Unknown"

\* C2: after every successful data_block_at call chunks is sorted with
\* pairwise distinct start addresses and the EndOfRom sentinel last.
C2_SuccessfulCallKeepsStoreStrictlySorted ==
    (CalledDataBlockAt /\ last.outcome = "Ok") =>
        StrictlySorted(chunks) /\ EndsWithSentinel(chunks)

\* C3: a step failing with InvalidAddrInCodeBlock or SubroutineWithoutReturn
\* does not stop full_analysis: the walk goes on (and ends in cleanup).
C3_StructuralErrorDoesNotAbortWalk ==
    error \in {"InvalidAddrInCodeBlock", "SubroutineWithoutReturn"} =>
        status \in {"walking", "finalized"}

\* C4: a data_block_at call whose range overlaps a Code chunk fails with
\* DataBlockNotFound and leaves chunks and cached_data_blocks as they were.
C4_OverlapWithCodeIsRejected ==
    (/\ CalledDataBlockAt
     /\ \E i \in 1..Len(last.before) :
           last.before[i].type = "Code" /\ Overlaps(last.before, i, last.data_block))
    => /\ last.outcome = "DataBlockNotFound"
       /\ chunks = last.before
       /\ cached_data_blocks = last.cache_before

\* C5: a data_block_at call whose range overlaps an existing Data chunk that is
\* not identical to it fails with DataBlockNotFound, and that Data chunk keeps
\* its start address, its range and its kind.
C5_ExistingDataBlockIsNeverAltered ==
    CalledDataBlockAt =>
        \A i \in 1..Len(last.before) :
            (/\ last.before[i].type = "Data"
             /\ last.before[i].data # last.data_block
             /\ Overlaps(last.before, i, last.data_block))
            => /\ last.outcome = "DataBlockNotFound"
               /\ \E j \in 1..(Len(chunks) - 1) :
                     /\ chunks[j] = last.before[i]
                     /\ chunks[j + 1].addr = last.before[i + 1].addr

\* C6: registering a data block whose range is exactly the range of an Unknown
\* chunk succeeds and leaves one Data entry at its start, no Unknown entry
\* starting in [start, end], and as many entries as before.
C6_ExactMatchLeavesNoUnknown ==
    (/\ CalledDataBlockAt
     /\ \E i \in 1..(Len(last.before) - 1) :
           /\ last.before[i].type = "Unknown"
           /\ last.before[i].addr = RequestBegin(last.data_block)
           /\ last.before[i + 1].addr = RequestEnd(last.data_block)
           /\ last.before[i].addr < last.before[i + 1].addr)
    => /\ last.outcome = "Ok"
       /\ Cardinality({j \in 1..Len(chunks) :
               chunks[j].type = "Data" /\ chunks[j].addr = RequestBegin(last.data_block)}) = 1
       /\ ~\E j \in 1..Len(chunks) :
               /\ chunks[j].type = "Unknown"
               /\ chunks[j].addr >= RequestBegin(last.data_block)
               /\ chunks[j].addr <= RequestEnd(last.data_block)
       /\ Len(chunks) = Len(last.before)

\* The request is identical to a data block registered before, or to a Data
\* chunk of the store (as the walker leaves one for a jump table).
AlreadyRegistered ==
    \/ last.data_block \in last.cache_before
    \/ \E i \in 1..(Len(last.before) - 1) :
          /\ last.before[i].type = "Data"
          /\ last.before[i].data = last.data_block
          /\ last.before[i].addr = RequestBegin(last.data_block)

\* C7: data_block_at is idempotent: registering a data block that was
\* registered before, or that the walker itself placed in the store, succeeds
\* and leaves chunks unchanged.
C7_RegistrationIsIdempotent ==
    (CalledDataBlockAt /\ AlreadyRegistered) =>
        last.outcome = "Ok" /\ chunks = last.before

\* C8: data_block_at answers every request with Ok or DataBlockNotFound and
\* never panics.
C8_DataBlockAtNeverPanics ==
    CalledDataBlockAt => last.outcome \in {"Ok", "DataBlockNotFound"}

\* C9: full_analysis terminates; in particular the walk never reaches a state
\* in which the step at the front of the worklist is a Subroutine step whose
\* processing re-queues it and leaves the walker exactly as it was, a state
\* the loop would then repeat forever.
C9_NoStepIsRequeuedForever ==
    ~(/\ status = "walking"
      /\ remaining_steps # <<>>
      /\ Head(remaining_steps).type = "Subroutine"
      /\ analyse_subroutine(Popped, Head(remaining_steps)) = Walker)

\* Chunk k ends in a call of the subroutine at linear address s.
EndsInCallOf(k, s) ==
    /\ k \in DOMAIN chunks
    /\ chunks[k].type = "Code"
    /\ chunks[k].code.instructions # <<>>
    /\ Last(chunks[k].code.instructions).op = "JSR"
    /\ chunks[k].code.exits # <<>>
    /\ PcFromSnes(chunks[k].code.exits[1]) = s

\* The walk is under way and one of the blocks collected for a subroutine ends
\* in a call of that same subroutine.
SelfRecursionMet ==
    /\ status = "walking"
    /\ \E s \in DOMAIN analysed_subroutines :
          \E k \in Range(analysed_subroutines[s].code_blocks) : EndsInCallOf(k, s)

\* The walk is over, every subroutine record is complete, and every return
\* address recorded for a subroutine was enqueued and became a Code chunk.
WalkResolved ==
    /\ status = "finalized"
    /\ \A s \in DOMAIN analysed_subroutines : is_complete(analysed_subroutines[s])
    /\ \A s \in DOMAIN subroutine_returns :
          \A i \in 1..Len(subroutine_returns[s]) :
              /\ subroutine_returns[s][i] \in analysed_code_starts
              /\ \E j \in 1..Len(chunks) :
                    chunks[j].type = "Code" /\ chunks[j].addr = subroutine_returns[s][i]

\* C10: when a subroutine (one that reaches a return, as all those of Images
\* do) contains a call to itself, the walk terminates: the Subroutine step is
\* re-queued only finitely often, the subroutine's record becomes complete, and
\* a BasicBlock step is enqueued (and analysed) for every recorded return
\* address, the outside caller's included.
C10_SelfRecursionTerminates == SelfRecursionMet ~> WalkResolved

\* A finished walk of a subroutine that calls itself: the record is complete,
\* and both the outside caller's return address and the recursive call's
\* return address are Code chunks.
C10_Witness ==
    /\ WalkResolved
    /\ \E s \in DOMAIN analysed_subroutines \cap DOMAIN subroutine_returns :
          /\ Len(subroutine_returns[s]) >= 2
          /\ \E j \in 1..Len(chunks) :
                /\ chunks[j].type = "Code"
                /\ chunks[j].addr >= s
                /\ chunks[j].code.instructions # <<>>
                /\ Last(chunks[j].code.instructions).op = "JSR"
                /\ chunks[j].code.exits = <<SnesFromPc(s)>>

----------------------------------------------------------------------------
(* Order of processing. *)

\* The worklists RomAssemblyWalker::new can build from one set of entry
\* points: AddrSnes::MIN stays first, the header's vectors follow in any order.
Orders(s) ==
    {[i \in 1..Len(s) |-> IF i = 1 THEN s[1] ELSE s[p[i - 1] + 1]] :
        p \in Permutations(1..(Len(s) - 1))}

\* The (start address, classification) entries of a chunk store.
Entries(cs) == [i \in 1..Len(cs) |-> <<cs[i].addr, cs[i].type>>]

\* The walker at an entry state, with its worklist in the given order.
Reordered(steps) == [Walker EXCEPT !.remaining_steps = steps]

\* C11: for one image and one set of entry points, every two orders of the
\* worklist whose analyses both finish without error leave the same sorted,
\* deduplicated sequence of (start address, classification) entries.
C11_FinalStoreIsOrderIndependent ==
    last.op = "new" =>
        \A s1, s2 \in Orders(remaining_steps) :
            LET r1 == full_analysis(Reordered(s1))
                r2 == full_analysis(Reordered(s2))
            IN  (r1.res = "Ok" /\ r2.res = "Ok") => Entries(r1.chunks) = Entries(r2.chunks)

----------------------------------------------------------------------------
(* Splitting a block. *)

\* What find_analysed_chunk_at answers for the step at the front of the worklist.
FrontLookup == find_analysed_chunk_at(Walker, Head(remaining_steps).code_start)

\* The front step is a BasicBlock step that lands strictly inside a known
\* Code chunk: analyse_basic_block answers it with split_block_at.
SplitRequested ==
    /\ status = "walking"
    /\ remaining_steps # <<>>
    /\ Head(remaining_steps).type = "BasicBlock"
    /\ FrontLookup.tag = "Found"
    /\ Head(remaining_steps).code_start # FrontLookup.range_start
    /\ chunks[FrontLookup.range_vec_idx].type = "Code"

\* After a split of chunk idx at m: the first half is the chunk pushed last,
\* the second half replaces the original in place.
SplitPreservesInstructions(idx, m) ==
    /\ status' = "walking"
    /\ Len(chunks') = Len(chunks) + 1
    /\ chunks'[idx].type = "Code" /\ Last(chunks').type = "Code"
    /\ LET original == chunks[idx].code.instructions
           first == Last(chunks').code.instructions
           second == chunks'[idx].code.instructions
       IN  /\ first \o second = original
           /\ \A i \in 1..Len(first) : first[i].offset < m
           /\ \A i \in 1..Len(second) : second[i].offset >= m

\* C12: split_block_at of a Code chunk at an interior address m keeps the
\* instruction list: first half followed by second half is the list before the
\* split, first-half offsets are below m and second-half offsets are at least m.
C12_SplitPreservesInstructionSequence ==
    [][SplitRequested =>
          SplitPreservesInstructions(FrontLookup.range_vec_idx,
                                     Head(remaining_steps).code_start)]_vars

----------------------------------------------------------------------------
(* Jump-table dispatch. *)

\* The front step is a BasicBlock step that decodes a new block.
DecodesBlock ==
    /\ status = "walking"
    /\ remaining_steps # <<>>
    /\ Head(remaining_steps).type = "BasicBlock"
    /\ FrontLookup.tag # "Found"

\* The chunks pushed by the step just taken.
PushedChunks == SubSeq(chunks', Len(chunks) + 1, Len(chunks'))

\* The block the step just taken committed for its code_start.
DecodedBlock ==
    LET k == CHOOSE k \in 1..Len(PushedChunks) :
                 /\ PushedChunks[k].type = "Code"
                 /\ PushedChunks[k].addr = Head(remaining_steps).code_start
    IN  PushedChunks[k].code

\* The steps pushed to the front of the worklist by the step just taken.
PushedSteps ==
    SubSeq(remaining_steps', 1, Len(remaining_steps') - (Len(remaining_steps) - 1))

\* The registry entries whose base is the address after the decoded block.
TablesAfterBlock ==
    LET last_instruction == Last(DecodedBlock.instructions)
    IN  {t \in image.tables :
            t.begin = SnesFromPc(last_instruction.offset + last_instruction.size)}

\* The step just taken decoded a block that ends in a jump-table dispatch
\* followed by a registered table.
DispatchDecoded ==
    /\ DecodesBlock
    /\ \E k \in 1..Len(PushedChunks) :
          /\ PushedChunks[k].type = "Code"
          /\ PushedChunks[k].addr = Head(remaining_steps).code_start
    /\ DecodedBlock.instructions # <<>>
    /\ uses_jump_table(Last(DecodedBlock.instructions))
    /\ TablesAfterBlock # {}

\* The pointers of the table after the block, without the zero entries and
\* without the excluded ones.
TablePointers ==
    LET jtv == CHOOSE t \in TablesAfterBlock : TRUE
    IN  {jtv.ptrs[i] : i \in 1..Len(jtv.ptrs)}
            \ ({a \in Range(jtv.ptrs) : a % 65536 = 0} \cup image.non_code)

\* exits and pushed steps are exactly the addresses of targets.
SuccessorsAre(targets) ==
    /\ Range(DecodedBlock.exits) = targets
    /\ {PushedSteps[i].code_start : i \in 1..Len(PushedSteps)}
           = {PcFromSnes(a) : a \in targets}
    /\ EXECUTE_PTR_TRAMPOLINE_ADDR \notin Range(DecodedBlock.exits)

\* C13 as stated: after a jump-table dispatch with a registered table, the
\* block's exits and the steps enqueued are exactly the table's pointers minus
\* the zero and the excluded ones, and the trampoline is not a successor.
C13_SuccessorsAreTablePointers ==
    [][DispatchDecoded => SuccessorsAre(TablePointers)]_vars

\* The table pointers LoROM maps to a linear address.
ConvertiblePointers == {a \in TablePointers : SnesIsValidLoRom(a)}

\* exits are exactly targets; steps are pushed for targets only, and every
\* target has been enqueued by now (enqueue_basic_block skips an address that
\* was enqueued before).
SuccessorsAreOnce(targets) ==
    /\ Range(DecodedBlock.exits) = targets
    /\ {PushedSteps[i].code_start : i \in 1..Len(PushedSteps)}
           \subseteq {PcFromSnes(a) : a \in targets}
    /\ {PcFromSnes(a) : a \in targets} \subseteq analysed_code_starts'
    /\ EXECUTE_PTR_TRAMPOLINE_ADDR \notin Range(DecodedBlock.exits)

\* C13, amended: pointers that do not convert to a linear address are skipped
\* as well, and a pointer enqueued before is not enqueued again; when every
\* remaining pointer lies inside the image, the block's exits are exactly the
\* remaining pointers, steps are enqueued for these addresses only, each of
\* them has been enqueued, and the trampoline is not a successor.
C13_SuccessorsAreConvertibleTablePointers ==
    [][(DispatchDecoded /\ \A a \in ConvertiblePointers : PcFromSnes(a) < RomLen)
          => (status' = "walking" /\ SuccessorsAreOnce(ConvertiblePointers))]_vars

\* A dispatch through a table holding one pointer into the image and one
\* pointer below 0x8000 has been analysed: the block is committed with the
\* first pointer as its only exit and a step for it is on the worklist.
C13_Witness ==
    /\ image.name = "jump_table_low_pointer"
    /\ status = "walking"
    /\ last.op = "analyse_basic_block"
    /\ \E k \in 1..Len(chunks) :
          /\ chunks[k].type = "Code"
          /\ uses_jump_table(Last(chunks[k].code.instructions))
          /\ chunks[k].code.exits = <<SnesFromPc(5)>>
    /\ \E i \in 1..Len(remaining_steps) : remaining_steps[i].code_start = 5

----------------------------------------------------------------------------
(* A successor beyond the image. *)

\* The block from_bytes decodes for the front step.
FrontDecode ==
    from_bytes(Head(remaining_steps).code_start,
               IF FrontLookup.tag = "MissingWithNext" THEN FrontLookup.next_start ELSE RomLen,
               Head(remaining_steps).processor)

\* The successors analyse_basic_block walks for that block.
FrontSuccessors ==
    LET last_instruction == Last(FrontDecode.instructions)
        found_tables == {t \in image.tables :
                            t.begin = SnesFromPc(FrontDecode.addr_after_block)}
    IN  IF ~can_change_program_counter(last_instruction) THEN <<>>
        ELSE IF ~uses_jump_table(last_instruction) THEN next_instructions(last_instruction)
        ELSE IF found_tables = {} THEN <<>>
        ELSE jump_table_targets(CHOOSE t \in found_tables : TRUE)

\* Successor i of the front block maps to a linear address outside the image.
BeyondImage(i) ==
    /\ SnesIsValidLoRom(FrontSuccessors[i])
    /\ PcFromSnes(FrontSuccessors[i]) >= RomLen

\* The front step decodes a block with a successor outside the image.
InvalidSuccessorDecoded ==
    /\ DecodesBlock
    /\ FrontDecode.instructions # <<>>
    /\ \E i \in 1..Len(FrontSuccessors) : BeyondImage(i)

\* The fall-through address is among the successors walked before the first
\* one outside the image.
FallThroughSeen ==
    LET first_invalid == Min({i \in 1..Len(FrontSuccessors) : BeyondImage(i)})
    IN  \E j \in 1..(first_invalid - 1) :
            /\ SnesIsValidLoRom(FrontSuccessors[j])
            /\ PcFromSnes(FrontSuccessors[j]) = FrontDecode.addr_after_block

\* The step returned InvalidAddrInCodeBlock and left the block committed.
BlockCommittedWithError ==
    LET code_start == Head(remaining_steps).code_start
        block_end == FrontDecode.addr_after_block
    IN  /\ status' = "failed"
        /\ error' = "InvalidAddrInCodeBlock"
        /\ \E k \in (Len(chunks) + 1)..Len(chunks') :
              /\ chunks'[k].type = "Code"
              /\ chunks'[k].addr = code_start
              /\ chunks'[k].code.instructions = FrontDecode.instructions
              /\ block_end \in DOMAIN analysed_chunks'
              /\ analysed_chunks'[block_end] = [start |-> code_start, idx |-> k]
        /\ (\E k \in (Len(chunks) + 1)..Len(chunks') :
               chunks'[k] = UnknownChunk(block_end)) <=> ~FallThroughSeen

\* C14: when analyse_basic_block decodes a block with a successor at or beyond
\* the image length, it returns InvalidAddrInCodeBlock; chunks then holds a
\* Code entry at the block's start, indexed by the block's end in the range
\* index, and an Unknown entry at the block's end unless the fall-through was
\* seen among the successors walked before.
C14_InvalidSuccessorCommitsBlock ==
    [][InvalidSuccessorDecoded => BlockCommittedWithError]_vars

\* A walk stopped by a jump beyond the image: the block [0, 3) is committed
\* and followed by an Unknown chunk.
C14_Witness ==
    /\ image.name = "invalid_jump"
    /\ status = "failed"
    /\ error = "InvalidAddrInCodeBlock"
    /\ \E k \in 1..Len(chunks) : chunks[k].type = "Code" /\ chunks[k].addr = 0
    /\ Last(chunks) = UnknownChunk(3)

----------------------------------------------------------------------------
(* Properties of the address conversions. *)

\* The bitwise AND of two naturals.
RECURSIVE BitAnd(_, _)
BitAnd(a, b) ==
    IF a = 0 \/ b = 0 THEN 0
    ELSE (a % 2) * (b % 2) + 2 * BitAnd(a \div 2, b \div 2)

\* Position i of the trail holds a value of the given space.
Holds(i, kind) ==
    /\ last.op = "addresses"
    /\ i \in 1..Len(last.trail)
    /\ last.trail[i].kind = kind

\* C15: a logical address a that is valid and was obtained from a linear
\* offset converts to a linear offset l', and l' converts back to a.
C15_LogicalRoundTrip ==
    (/\ Holds(1, "AddrPc") /\ Holds(2, "AddrSnes")
     /\ SnesIsValidLoRom(last.trail[2].value)
     /\ Len(last.trail) = 4)
        => /\ last.trail[3].ok /\ last.trail[3].kind = "AddrPc"
           /\ last.trail[4] = [ok |-> TRUE, kind |-> "AddrSnes", value |-> last.trail[2].value]

\* A chain l, a, l', a with a = 0x018000 (the second ROM bank) is complete.
C15_Witness ==
    /\ Holds(1, "AddrPc") /\ Holds(2, "AddrSnes")
    /\ last.trail[2].value = 98304
    /\ SnesIsValidLoRom(last.trail[2].value)
    /\ Len(last.trail) = 4
    /\ last.trail[4].value = 98304

\* C16: a linear offset l below 0x400000 converts to a logical address a, a
\* converts back to a linear offset, and that offset is l.
C16_LinearRoundTrip ==
    (/\ Holds(1, "AddrPc")
     /\ last.trail[1].value < 4194304
     /\ Len(last.trail) >= 3)
        => /\ last.trail[2].ok /\ last.trail[2].kind = "AddrSnes"
           /\ last.trail[3] = [ok |-> TRUE, kind |-> "AddrPc", value |-> last.trail[1].value]

\* The value that conversion number i of the trail was applied to.
Converted(i) == last.trail[i - 1].value

\* C17: AddrPc::try_from_lorom fails exactly on work RAM, on the lower half of
\* the banks below 0x40 and on the SRAM window, AddrSnes::try_from_lorom fails
\* exactly on offsets of at least 0x400000, a failure is an AddressError value,
\* and every linear offset obtained is below 0x400000.
C17_ConversionFailsExactlyOutsideDomain ==
    last.op = "addresses" =>
        \A i \in 2..Len(last.trail) :
            /\ last.trail[i - 1].kind = "AddrSnes" =>
                  /\ last.trail[i].ok <=>
                        ~(\/ BitAnd(Converted(i), 16646144) = 8257536
                          \/ BitAnd(Converted(i), 4227072) = 0
                          \/ BitAnd(Converted(i), 7372800) = 7340032)
                  /\ last.trail[i].kind = IF last.trail[i].ok THEN "AddrPc" ELSE "InvalidSnesLoRom"
                  /\ last.trail[i].ok => last.trail[i].value < 4194304
            /\ last.trail[i - 1].kind = "AddrPc" =>
                  /\ last.trail[i].ok <=> ~(Converted(i) >= 4194304)
                  /\ last.trail[i].kind = IF last.trail[i].ok THEN "AddrSnes" ELSE "InvalidPcLoRom"

\* Both conversions have failed on some input and succeeded on another: here a
\* work RAM address has been refused.
C17_Witness ==
    /\ Holds(1, "AddrSnes")
    /\ last.trail[1].value = 8257536
    /\ Len(last.trail) = 2
    /\ ~last.trail[2].ok

----------------------------------------------------------------------------
(* Splitting Unknown chunks with data_block_at. *)

\* Chunk i of the store before the last call is an Unknown chunk [a, e).
UnknownBefore(i) ==
    /\ i \in 1..(Len(last.before) - 1)
    /\ last.before[i].type = "Unknown"

\* The store before the last call with chunks first..last replaced by middle.
Replaced(first, middle, past) ==
    SubSeq(last.before, 1, first - 1) \o middle
        \o SubSeq(last.before, past, Len(last.before))

\* C18: a request of size n that starts at the start a of an Unknown chunk
\* [a, e), with n < e - a, succeeds; the store then has Data [a, a+n) followed
\* by Unknown [a+n, e) in place of that chunk and is otherwise unchanged.
C18_LeadingRangeSplitsUnknown ==
    CalledDataBlockAt =>
        \A i \in 1..(Len(last.before) - 1) :
            (/\ UnknownBefore(i)
             /\ SnesIsValidLoRom(last.data_block.begin)
             /\ last.before[i].addr = PcFromSnes(last.data_block.begin)
             /\ last.data_block.size < last.before[i + 1].addr - last.before[i].addr)
                => /\ last.outcome = "Ok"
                   /\ chunks = Replaced(i,
                          <<DataChunk(last.before[i].addr, last.data_block),
                            UnknownChunk(last.before[i].addr + last.data_block.size)>>,
                          i + 1)

\* C19: a request [b, b+n) whose start b lies strictly inside an Unknown chunk
\* [a, e), with b+n <= e, succeeds; the store then has Unknown [a, b),
\* Data [b, b+n) and, only if b+n < e, Unknown [b+n, e) in place of that chunk
\* and is otherwise unchanged.
C19_InteriorRangeSplitsUnknown ==
    CalledDataBlockAt =>
        \A i \in 1..(Len(last.before) - 1) :
            LET b == PcFromSnes(last.data_block.begin)
                n == last.data_block.size
                e == last.before[i + 1].addr
            IN  (/\ UnknownBefore(i)
                 /\ SnesIsValidLoRom(last.data_block.begin)
                 /\ last.before[i].addr < b /\ b < e
                 /\ b + n <= e)
                    => /\ last.outcome = "Ok"
                       /\ chunks = Replaced(i + 1,
                              <<DataChunk(b, last.data_block)>>
                                  \o (IF b + n < e THEN <<UnknownChunk(b + n)>> ELSE <<>>),
                              i + 1)

\* The unexplored bytes [3, 6) of the linear image have been split around a
\* one-byte data block at 4: Unknown 3, Data 4, Unknown 5.
C19_Witness ==
    /\ CalledDataBlockAt
    /\ image.name = "linear"
    /\ last.outcome = "Ok"
    /\ last.data_block.begin = SnesFromPc(4) /\ last.data_block.size = 1
    /\ \E i \in 1..(Len(last.before) - 1) :
          /\ UnknownBefore(i)
          /\ last.before[i].addr = 3 /\ last.before[i + 1].addr = 6
          /\ chunks[i] = UnknownChunk(3)
          /\ chunks[i + 1] = DataChunk(4, last.data_block)
          /\ chunks[i + 2] = UnknownChunk(5)

----------------------------------------------------------------------------
(* Mutual recursion. *)

\* The walk is under way and two subroutines call each other: a block
\* collected for one ends in a call of the other, and conversely.
MutualRecursionMet ==
    /\ status = "walking"
    /\ \E a, b \in DOMAIN analysed_subroutines :
          /\ a # b
          /\ \E k \in Range(analysed_subroutines[a].code_blocks) : EndsInCallOf(k, b)
          /\ \E k \in Range(analysed_subroutines[b].code_blocks) : EndsInCallOf(k, a)

\* C20: when subroutine A calls B and B calls A, the walk terminates: the call
\* that closes the cycle is followed by a BasicBlock step for its return
\* address, both subroutine records become complete, every recorded return
\* address is analysed, and the worklist empties.
C20_MutualRecursionTerminates == MutualRecursionMet ~> WalkResolved

----------------------------------------------------------------------------
(* Invariants of the walk. *)

\* C21: during the walk no two non-Unknown entries of chunks (Code or Data)
\* start at the same address, and cleanup never panics with "Multiple chunks
\* generated at address".
C21_NoTwoClassificationsAtOneAddress ==
    /\ status = "walking" =>
          \A i, j \in 1..Len(chunks) :
              (i # j /\ chunks[i].type # "Unknown" /\ chunks[j].type # "Unknown")
                  => chunks[i].addr # chunks[j].addr
    /\ error # "panic: Multiple chunks generated at address"


\* The step of last has just suspended on block address d (lines 382-386): it
\* is the back of the worklist, d is on top of its record's remaining_blocks,
\* and no chunk contains d.
SuspendedOn(d) ==
    /\ status = "walking"
    /\ last.op = "analyse_subroutine"
    /\ remaining_steps # <<>>
    /\ Last(remaining_steps) = last.step
    /\ last.step.code_start \in DOMAIN analysed_subroutines
    /\ analysed_subroutines[last.step.code_start].remaining_blocks # <<>>
    /\ d = Last(analysed_subroutines[last.step.code_start].remaining_blocks)
    /\ find_analysed_chunk_at(Walker, d).tag # "Found"

\* A BasicBlock step for d is pending ahead of the back of the worklist.
BlockPendingAhead(d) ==
    \E i \in 1..(Len(remaining_steps) - 1) :
        /\ remaining_steps[i].type = "BasicBlock"
        /\ remaining_steps[i].code_start = d

\* C22: whenever analyse_subroutine has suspended on a block address d without
\* a chunk and re-queued its Subroutine step, a BasicBlock step for d is
\* pending in the worklist ahead of the re-queued step.
C22_SuspensionWaitsForPendingBlock ==
    \A d \in 0..Len(image.cells) : SuspendedOn(d) => BlockPendingAhead(d)


----------------------------------------------------------------------------
(* Suspension of a subroutine analysis. *)

Occurrences(s, x) == Cardinality({i \in 1..Len(s) : s[i] = x})

IsPrefix(s, t) == Len(s) <= Len(t) /\ SubSeq(t, 1, Len(s)) = s

\* The record the front Subroutine step starts from (lines 317-328).
RecordBefore ==
    IF Head(remaining_steps).code_start \in DOMAIN analysed_subroutines
    THEN analysed_subroutines[Head(remaining_steps).code_start]
    ELSE NewSubroutineAnalysisState(Head(remaining_steps).code_start)

\* The front Subroutine step was analysed and re-queued itself (line 384).
Requeued ==
    /\ status = "walking"
    /\ remaining_steps # <<>>
    /\ Head(remaining_steps).type = "Subroutine"
    /\ status' = "walking"
    /\ Occurrences(remaining_steps', Head(remaining_steps))
          > Occurrences(Tail(remaining_steps), Head(remaining_steps))

\* The walker of the next state with the re-queued step taken off the back.
ResumedWalker ==
    [chunks |-> chunks', analysed_chunks |-> analysed_chunks',
     remaining_steps |-> SubSeq(remaining_steps', 1, Len(remaining_steps') - 1),
     analysed_code_starts |-> analysed_code_starts',
     subroutine_returns |-> subroutine_returns',
     analysed_subroutines |-> analysed_subroutines', res |-> "Ok"]

\* C23: when analyse_subroutine suspends on a missing block d, d is back on
\* top of remaining_blocks, nothing recorded before is lost, exactly one
\* Subroutine step is appended, a suspension on the first block popped leaves
\* the record as it was, and analysing the step again without progress
\* changes neither the record nor the worklist.
C23_SuspensionIsLossFreeAndIdempotent ==
    [][Requeued =>
        LET step   == Head(remaining_steps)
            before == RecordBefore
            after  == analysed_subroutines'[step.code_start]
            again  == analyse_subroutine(ResumedWalker, step)
        IN  /\ Last(remaining_steps') = step
            /\ Occurrences(remaining_steps', step)
                  = Occurrences(Tail(remaining_steps), step) + 1
            /\ after.remaining_blocks # <<>>
            /\ find_analysed_chunk_at(ResumedWalker, Last(after.remaining_blocks)).tag
                  # "Found"
            /\ IsPrefix(before.code_blocks, after.code_blocks)
            /\ before.analysed_blocks \subseteq after.analysed_blocks
            /\ find_analysed_chunk_at(Walker, Last(before.remaining_blocks)).tag # "Found"
                  => /\ after = before
                     /\ remaining_steps' = Append(Tail(remaining_steps), step)
            /\ again.res = "Ok"
            /\ again.analysed_subroutines = analysed_subroutines'
            /\ again.remaining_steps = remaining_steps'
            /\ again.chunks = chunks'
    ]_vars

\* A Subroutine step that already made progress is suspended on a missing block.
C23_Witness ==
    \E d \in 0..Len(image.cells) :
        /\ SuspendedOn(d)
        /\ analysed_subroutines[last.step.code_start].code_blocks # <<>>


----------------------------------------------------------------------------
(* The return address of a call. *)

\* The step just taken decoded a block ending in a call whose target LoROM
\* maps to a linear address other than the return address itself (a call of
\* the next instruction makes the return address a successor of the block).
CallDecoded ==
    /\ DecodesBlock
    /\ status' = "walking"
    /\ \E k \in 1..Len(PushedChunks) :
          /\ PushedChunks[k].type = "Code"
          /\ PushedChunks[k].addr = Head(remaining_steps).code_start
    /\ DecodedBlock.instructions # <<>>
    /\ is_subroutine_call(Last(DecodedBlock.instructions))
    /\ ~uses_jump_table(Last(DecodedBlock.instructions))
    /\ SnesIsValidLoRom(Last(DecodedBlock.instructions).target)
    /\ PcFromSnes(Last(DecodedBlock.instructions).target)
          # Last(DecodedBlock.instructions).offset + Last(DecodedBlock.instructions).size

\* The BasicBlock steps pushed by the step just taken.  A Subroutine step
\* that suspends also appends itself at the back.
PushedBlockSteps ==
    LET kept   == Len(remaining_steps) - 1
        pushed == IF Requeued THEN Len(remaining_steps') - kept - 1
                  ELSE Len(remaining_steps') - kept
    IN  {remaining_steps'[i] : i \in 1..pushed} \cap
        {s \in Range(remaining_steps') : s.type = "BasicBlock"}

\* Lines 476-496: the return address of a decoded call is enqueued only when
\* the callee's record is complete, with the callee's final state.
CallSiteWaitsForCallee ==
    LET call   == Last(DecodedBlock.instructions)
        callee == PcFromSnes(call.target)
        return == call.offset + call.size
        known  == callee \in DOMAIN analysed_subroutines
                    /\ is_complete(analysed_subroutines[callee])
    IN  /\ \A s \in PushedBlockSteps :
              s.code_start = return
                  => /\ known
                     /\ s.processor = analysed_subroutines[callee].final_processor_state
        /\ (known /\ return \notin analysed_code_starts)
              => \E s \in PushedBlockSteps : s.code_start = return

\* Lines 349-367 and 401-414: a BasicBlock step pushed by analyse_subroutine
\* is a return address of the subroutine just completed, with its final state,
\* or the return address of a call of a subroutine on the caller chain, with
\* the state the enclosing record held when the step began.
SubroutineResumesReturns ==
    LET step   == Head(remaining_steps)
        before == RecordBefore
        after  == analysed_subroutines'[step.code_start]
    IN  \A s \in PushedBlockSteps :
            \/ /\ is_complete(after)
               /\ step.code_start \in DOMAIN subroutine_returns'
               /\ s.code_start \in Range(subroutine_returns'[step.code_start])
               /\ s.processor = after.final_processor_state
            \/ \E k \in Range(after.code_blocks) :
                  /\ chunks'[k].type = "Code"
                  /\ chunks'[k].code.instructions # <<>>
                  /\ is_subroutine_call(Last(chunks'[k].code.instructions))
                  /\ ~uses_jump_table(Last(chunks'[k].code.instructions))
                  /\ chunks'[k].code.exits # <<>>
                  /\ sub_exists_in_call_hierarchy(step, PcFromSnes(chunks'[k].code.exits[1]))
                  /\ s.code_start = Last(chunks'[k].code.instructions).offset
                                       + Last(chunks'[k].code.instructions).size
                  /\ s.processor = before.final_processor_state

\* C24: for a call whose callee maps to a ROM linear address, a BasicBlock
\* step for the return address is enqueued by the call's handling only when
\* the callee's record is complete, and it carries the callee's final state;
\* analyse_subroutine enqueues return addresses at completion with the final
\* state, except for a callee on the caller chain, whose return address gets
\* the enclosing record's in-progress state.
C24_ReturnWaitsForCalleeState ==
    [][/\ CallDecoded => CallSiteWaitsForCallee
       /\ (status = "walking" /\ remaining_steps # <<>>
           /\ Head(remaining_steps).type = "Subroutine" /\ status' = "walking")
             => SubroutineResumesReturns
    ]_vars

\* A call of a completed subroutine has just been decoded: the step for its
\* return address is at the front of the worklist and carries the callee's
\* final state, which differs from the state at the end of the call block.
C24_Witness ==
    /\ status = "walking"
    /\ last.op = "analyse_basic_block"
    /\ remaining_steps # <<>>
    /\ Head(remaining_steps).type = "BasicBlock"
    /\ \E k \in 1..Len(chunks) :
          /\ chunks[k].type = "Code"
          /\ chunks[k].addr = last.step.code_start
          /\ chunks[k].code.instructions # <<>>
          /\ is_subroutine_call(Last(chunks[k].code.instructions))
          /\ Head(remaining_steps).code_start
                = Last(chunks[k].code.instructions).offset + 1
          /\ \E callee \in DOMAIN analysed_subroutines :
                /\ callee = PcFromSnes(Last(chunks[k].code.instructions).target)
                /\ is_complete(analysed_subroutines[callee])
                /\ Head(remaining_steps).processor
                      = analysed_subroutines[callee].final_processor_state
                /\ Head(remaining_steps).processor # chunks[k].code.final_processor_state


----------------------------------------------------------------------------
(* Continuations of completed subroutines. *)

\* C25: while the walk runs and when it is finalized, every return address
\* registered in subroutine_returns for a subroutine whose record is complete
\* is in analysed_code_starts, and it is the start of a Code chunk or, during
\* the walk, of a pending BasicBlock step.
C25_ReturnsOfCompleteSubroutinesAreEnqueued ==
    status \in {"walking", "finalized"} =>
        \A s \in DOMAIN analysed_subroutines \cap DOMAIN subroutine_returns :
            is_complete(analysed_subroutines[s]) =>
                \A i \in 1..Len(subroutine_returns[s]) :
                    /\ subroutine_returns[s][i] \in analysed_code_starts
                    /\ \/ \E k \in 1..Len(chunks) :
                              /\ chunks[k].type = "Code"
                              /\ chunks[k].addr = subroutine_returns[s][i]
                       \/ /\ status = "walking"
                          /\ \E k \in 1..Len(remaining_steps) :
                                /\ remaining_steps[k].type = "BasicBlock"
                                /\ remaining_steps[k].code_start = subroutine_returns[s][i]

\* The walk is finalized and a completed subroutine was called again from the
\* block at its first return address, that is after its record was complete;
\* the return address of that second call starts a Code chunk.
C25_Witness ==
    /\ status = "finalized"
    /\ \E s \in DOMAIN analysed_subroutines \cap DOMAIN subroutine_returns :
          /\ is_complete(analysed_subroutines[s])
          /\ Len(subroutine_returns[s]) >= 2
          /\ \E k, j \in 1..Len(chunks) :
                /\ chunks[k].addr = subroutine_returns[s][1]
                /\ EndsInCallOf(k, s)
                /\ chunks[j].type = "Code"
                /\ chunks[j].addr = subroutine_returns[s][2]
                /\ chunks[j].addr # chunks[k].addr

----------------------------------------------------------------------------
(* A subroutine without a return. *)

\* Chunk k of the next state is a block ending in a return or in a dispatch.
EndsSubroutine(k) ==
    /\ chunks'[k].type = "Code"
    /\ chunks'[k].code.instructions # <<>>
    /\ \/ is_subroutine_return(Last(chunks'[k].code.instructions))
       \/ uses_jump_table(Last(chunks'[k].code.instructions))

\* The front Subroutine step has drained its record's remaining_blocks and
\* none of the blocks collected ends in a return or in a dispatch.
DrainedWithoutReturn ==
    /\ status = "walking"
    /\ remaining_steps # <<>>
    /\ Head(remaining_steps).type = "Subroutine"
    /\ status' \in {"walking", "failed"}
    /\ Head(remaining_steps).code_start \in DOMAIN analysed_subroutines'
    /\ LET after == analysed_subroutines'[Head(remaining_steps).code_start]
       IN  /\ is_complete(after)
           /\ \A k \in Range(after.code_blocks) : ~EndsSubroutine(k)

\* The step just taken failed with SubroutineWithoutReturn.
FailedWithoutReturn ==
    /\ status = "walking"
    /\ status' = "failed"
    /\ error' = "SubroutineWithoutReturn"

\* No step was pushed for a return address registered for the front step's
\* subroutine, except by a call of a subroutine on the caller chain.
NoContinuationEnqueued ==
    LET step == Head(remaining_steps)
        enqueued == analysed_code_starts' \ analysed_code_starts
    IN  /\ \A s \in Range(remaining_steps') \ Range(remaining_steps) :
              s.type = "BasicBlock" =>
                  \E k \in Range(analysed_subroutines'[step.code_start].code_blocks) :
                      /\ chunks'[k].type = "Code"
                      /\ chunks'[k].code.instructions # <<>>
                      /\ is_subroutine_call(Last(chunks'[k].code.instructions))
                      /\ chunks'[k].code.exits # <<>>
                      /\ sub_exists_in_call_hierarchy(step, PcFromSnes(chunks'[k].code.exits[1]))
                      /\ s.code_start = Last(chunks'[k].code.instructions).offset
                                           + Last(chunks'[k].code.instructions).size
        /\ step.code_start \in DOMAIN subroutine_returns' =>
              \A r \in Range(subroutine_returns'[step.code_start]) \cap enqueued :
                  \E k \in Range(analysed_subroutines'[step.code_start].code_blocks) :
                      /\ chunks'[k].type = "Code"
                      /\ chunks'[k].code.instructions # <<>>
                      /\ r = Last(chunks'[k].code.instructions).offset
                                + Last(chunks'[k].code.instructions).size

\* C26: a Subroutine step that drains remaining_blocks while no block of
\* code_blocks ends in a return or a jump-table dispatch fails with
\* SubroutineWithoutReturn, raised by the step of that subroutine, and
\* enqueues no continuation at the return addresses registered for it; the
\* error is raised in no other case.
C26_DrainedWithoutReturnFails ==
    [][/\ DrainedWithoutReturn => (FailedWithoutReturn /\ NoContinuationEnqueued)
       /\ FailedWithoutReturn =>
             (DrainedWithoutReturn /\ last'.step = Head(remaining_steps))
    ]_vars

\* The walk has failed on a subroutine without a return while a call site
\* waits for it: its return address was registered and never enqueued.
C26_Witness ==
    /\ status = "failed"
    /\ error = "SubroutineWithoutReturn"
    /\ last.op = "analyse_subroutine"
    /\ last.step.code_start \in DOMAIN subroutine_returns
    /\ \E r \in Range(subroutine_returns[last.step.code_start]) :
          r \notin analysed_code_starts


----------------------------------------------------------------------------
(* The final state of a completed subroutine. *)

\* The blocks of record sub that end in a return.
ReturnBlocks(sub) ==
    {k \in Range(sub.code_blocks) :
        /\ chunks[k].type = "Code"
        /\ chunks[k].code.instructions # <<>>
        /\ is_subroutine_return(Last(chunks[k].code.instructions))}

\* C27: during the walk (code_blocks indexes chunks as it is before cleanup) a
\* completed subroutine with a block ending in a return has the final state
\* recorded for one of its return-terminated blocks.
C27_FinalStateIsThatOfAReturnBlock ==
    status = "walking" =>
        \A s \in DOMAIN analysed_subroutines :
            (is_complete(analysed_subroutines[s])
               /\ ReturnBlocks(analysed_subroutines[s]) # {})
                => \E k \in ReturnBlocks(analysed_subroutines[s]) :
                      analysed_subroutines[s].final_processor_state
                          = chunks[k].code.final_processor_state


----------------------------------------------------------------------------
(* The instructions of Code chunks. *)

\* C28: every Code entry of chunks has at least one instruction.
C28_CodeChunksHaveInstructions ==
    \A k \in 1..Len(chunks) :
        chunks[k].type = "Code" => chunks[k].code.instructions # <<>>


\* The instructions of block follow each other without a gap.
Contiguous(instructions) ==
    \A i \in 1..(Len(instructions) - 1) :
        instructions[i + 1].offset = instructions[i].offset + instructions[i].size

\* C29: in the finalized store every Code chunk starts at the offset of its
\* first instruction, its instructions are contiguous, and the next chunk
\* starts at the address just after its last instruction.
C29_CodeChunkCoversItsInstructions ==
    status = "finalized" =>
        \A k \in 1..Len(chunks) :
            chunks[k].type = "Code" =>
                /\ chunks[k].code.instructions # <<>>
                /\ chunks[k].code.instructions[1].offset = chunks[k].addr
                /\ Contiguous(chunks[k].code.instructions)
                /\ k < Len(chunks)
                /\ chunks[k + 1].addr
                      = Last(chunks[k].code.instructions).offset
                           + Last(chunks[k].code.instructions).size


----------------------------------------------------------------------------
(* The range index. *)

\* C30: during the walk every entry end -> (start, idx) of analysed_chunks
\* names a Code chunk chunks[idx] that starts at start and whose last
\* instruction ends at end, and the indexed ranges are pairwise disjoint.
C30_RangeIndexMatchesChunks ==
    status = "walking" =>
        /\ \A e \in DOMAIN analysed_chunks :
              LET start == analysed_chunks[e].start
                  idx   == analysed_chunks[e].idx
              IN  /\ idx \in 1..Len(chunks)
                  /\ chunks[idx].type = "Code"
                  /\ chunks[idx].addr = start
                  /\ chunks[idx].code.instructions # <<>>
                  /\ Last(chunks[idx].code.instructions).offset
                        + Last(chunks[idx].code.instructions).size = e
        /\ \A e, f \in DOMAIN analysed_chunks :
              e < f => e <= analysed_chunks[f].start


----------------------------------------------------------------------------
(* Data chunks and decoding. *)

\* The bytes covered by the instructions of Code chunk k.
InstructionBytes(k) ==
    UNION {chunks[k].code.instructions[i].offset
              .. (chunks[k].code.instructions[i].offset
                     + chunks[k].code.instructions[i].size - 1) :
           i \in 1..Len(chunks[k].code.instructions)}

\* The bytes [B, B+L) of Data chunk k.
DataBytes(k) == chunks[k].addr .. (chunks[k].addr + chunks[k].data.size - 1)

\* C31: in every state of the walk and in the finalized store no instruction
\* of a Code chunk covers a byte of a jump-table Data chunk.
C31_DataBytesAreNeverDecoded ==
    status \in {"walking", "finalized"} =>
        \A c, d \in 1..Len(chunks) :
            (chunks[c].type = "Code" /\ chunks[d].type = "Data")
                => InstructionBytes(c) \cap DataBytes(d) = {}


----------------------------------------------------------------------------
(* The two halves of a split. *)

\* split_block_at has just split the chunk the front step landed in.
SplitDone ==
    /\ SplitRequested
    /\ status' = "walking"
    /\ Len(chunks') = Len(chunks) + 1

\* The chunk before the split and its two halves after it.
OriginalChunk == chunks[FrontLookup.range_vec_idx]

FirstHalf == Last(chunks')

SecondHalf == chunks'[FrontLookup.range_vec_idx]

\* C32: after a split at middle with splitting entrance e the first half has
\* the original entrances and the single exit middle, the second half has the
\* original exits and the entrances e and the address of the first half's last
\* instruction, the first half is stored at the original start and the second
\* half at middle.
C32_SplitLinksTheHalves ==
    [][SplitDone =>
        LET middle == Head(remaining_steps).code_start
            e      == Head(remaining_steps).entrance
        IN  /\ FirstHalf.type = "Code" /\ SecondHalf.type = "Code"
            /\ FirstHalf.addr = OriginalChunk.addr
            /\ SecondHalf.addr = middle
            /\ FirstHalf.code.entrances = OriginalChunk.code.entrances
            /\ FirstHalf.code.exits = <<SnesFromPc(middle)>>
            /\ SecondHalf.code.exits = OriginalChunk.code.exits
            /\ FirstHalf.code.instructions # <<>>
            /\ SecondHalf.code.entrances
                  = <<e, SnesFromPc(Last(FirstHalf.code.instructions).offset)>>
    ]_vars

\* A block with two exits has been split: the chunk pushed last has the
\* single exit at the start of the chunk that took the original's place.
C32_Witness ==
    /\ status = "walking"
    /\ last.op = "analyse_basic_block"
    /\ Len(chunks) >= 2
    /\ Last(chunks).type = "Code"
    /\ \E k \in 1..(Len(chunks) - 1) :
          /\ chunks[k].type = "Code"
          /\ chunks[k].addr = last.step.code_start
          /\ chunks[k].addr > Last(chunks).addr
          /\ Last(chunks).code.exits = <<SnesFromPc(chunks[k].addr)>>
          /\ Len(chunks[k].code.exits) = 2
          /\ Len(chunks[k].code.entrances) = 2
          /\ chunks[k].code.entrances[1] = last.step.entrance
          /\ chunks[k].code.instructions # <<>>


\* C33: after a split the first half's final flag state is the replay of its
\* instructions from the original entry state, the second half's entry state
\* is that state, and the second half's final state is the original's final
\* state, which is the replay of the second half from its new entry state.
C33_SplitRecomputesFlagStates ==
    [][SplitDone =>
        /\ FirstHalf.code.entry_processor_state = OriginalChunk.code.entry_processor_state
        /\ FirstHalf.code.final_processor_state
              = Replay(OriginalChunk.code.entry_processor_state, FirstHalf.code.instructions)
        /\ SecondHalf.code.entry_processor_state = FirstHalf.code.final_processor_state
        /\ SecondHalf.code.final_processor_state = OriginalChunk.code.final_processor_state
        /\ SecondHalf.code.final_processor_state
              = Replay(SecondHalf.code.entry_processor_state, SecondHalf.code.instructions)
    ]_vars

\* A block has been split behind an instruction that changes the register
\* widths: the first half ends in another flag state than it began with, and
\* the second half begins in that state.
C33_Witness ==
    /\ status = "walking"
    /\ last.op = "analyse_basic_block"
    /\ Len(chunks) >= 2
    /\ Last(chunks).type = "Code"
    /\ Last(chunks).code.final_processor_state # Last(chunks).code.entry_processor_state
    /\ \E k \in 1..(Len(chunks) - 1) :
          /\ chunks[k].type = "Code"
          /\ chunks[k].addr = last.step.code_start
          /\ Last(chunks).code.exits = <<SnesFromPc(chunks[k].addr)>>
          /\ chunks[k].code.entry_processor_state = Last(chunks).code.final_processor_state
          /\ chunks[k].code.instructions # <<>>


----------------------------------------------------------------------------
(* A split happens once. *)

\* The range index answers Found for m with a chunk that starts exactly at m.
StartsChunk(index, m) ==
    /\ find_analysed_chunk_at([analysed_chunks |-> index], m).tag = "Found"
    /\ find_analysed_chunk_at([analysed_chunks |-> index], m).range_start = m

\* The front step changes nothing but the worklist, which loses the step.
OnlyPopsStep ==
    /\ chunks' = chunks
    /\ analysed_chunks' = analysed_chunks
    /\ analysed_code_starts' = analysed_code_starts
    /\ subroutine_returns' = subroutine_returns
    /\ analysed_subroutines' = analysed_subroutines
    /\ remaining_steps' = Tail(remaining_steps)
    /\ status' = "walking"

\* C34: a split at middle puts middle into analysed_code_starts and makes the
\* index answer middle with a chunk starting exactly there; an address the
\* index answers in this way keeps being answered so for the rest of the walk;
\* and a BasicBlock step for such an address splits nothing and changes
\* nothing.  Hence no address is split at twice.
C34_SplitHappensOnce ==
    [][/\ SplitDone =>
             /\ Head(remaining_steps).code_start \in analysed_code_starts'
             /\ StartsChunk(analysed_chunks', Head(remaining_steps).code_start)
       /\ (status = "walking" /\ status' = "walking") =>
             \A m \in 0..RomLen :
                 StartsChunk(analysed_chunks, m) => StartsChunk(analysed_chunks', m)
       /\ (status = "walking" /\ remaining_steps # <<>>
           /\ Head(remaining_steps).type = "BasicBlock"
           /\ StartsChunk(analysed_chunks, Head(remaining_steps).code_start))
             => OnlyPopsStep
    ]_vars

\* The step just taken was a BasicBlock step for an address at which a block
\* had been split before: the chunk at that address is the second half of a
\* split, and the step left the store at the two halves.
C34_Witness ==
    /\ status = "walking"
    /\ last.op = "analyse_basic_block"
    /\ StartsChunk(analysed_chunks, last.step.code_start)
    /\ \E k, f \in 1..Len(chunks) :
          /\ k < f
          /\ f < Len(chunks)
          /\ chunks[k].type = "Code" /\ chunks[f].type = "Code"
          /\ chunks[k].addr = last.step.code_start
          /\ chunks[f].code.exits = <<SnesFromPc(chunks[k].addr)>>
          /\ Len(chunks[k].code.entrances) = 2
          /\ chunks[f].code.instructions # <<>>
          /\ chunks[k].code.entrances[2] = SnesFromPc(Last(chunks[f].code.instructions).offset)


----------------------------------------------------------------------------
(* The Data chunk of a jump table. *)

\* The registry entries that begin right after Code chunk k, when k ends in a
\* jump-table dispatch.
TablesAfterChunk(k) ==
    IF chunks[k].type = "Code" /\ chunks[k].code.instructions # <<>>
       /\ uses_jump_table(Last(chunks[k].code.instructions))
    THEN {t \in image.tables :
            t.begin = SnesFromPc(Last(chunks[k].code.instructions).offset
                                    + Last(chunks[k].code.instructions).size)}
    ELSE {}

\* C35: for every block of the finalized store that ends in a jump-table
\* dispatch followed by a registered table (base B, length L) the store holds
\* a Data chunk at B, tagged JumpTableLong for long pointers and JumpTable
\* otherwise, and the chunk after it starts at B + L.
C35_TableChunkCoversExactlyTheTable ==
    status = "finalized" =>
        \A k \in 1..Len(chunks) : \A t \in TablesAfterChunk(k) :
            \E d \in 1..(Len(chunks) - 1) :
                /\ chunks[d].type = "Data"
                /\ chunks[d].addr = PcFromSnes(t.begin)
                /\ chunks[d].data.kind = IF t.long_ptrs THEN "JumpTableLong" ELSE "JumpTable"
                /\ chunks[d + 1].addr = PcFromSnes(t.begin) + t.length


----------------------------------------------------------------------------
(* A dispatch without a registered table. *)

\* The front step decodes a block whose last instruction is the call of the
\* ExecutePtr trampoline, and no registry entry begins after the block.
DispatchWithoutTable ==
    /\ DecodesBlock
    /\ FrontDecode.instructions # <<>>
    /\ Last(FrontDecode.instructions).op = JT.op
    /\ Last(FrontDecode.instructions).target = EXECUTE_PTR_TRAMPOLINE_ADDR
    /\ ~ \E t \in image.tables : t.begin = SnesFromPc(FrontDecode.addr_after_block)

\* C36: a block ending in a jump-table dispatch with no registry entry after
\* it is committed as a Code chunk without exits and indexed by its end, no
\* Data chunk is pushed, no step is enqueued, and the walk goes on with the
\* rest of the worklist.
C36_DispatchWithoutTableIsCommitted ==
    [][DispatchWithoutTable =>
        /\ status' = "walking"
        /\ error' = "none"
        /\ remaining_steps' = Tail(remaining_steps)
        /\ analysed_code_starts' = analysed_code_starts
        /\ analysed_subroutines' = analysed_subroutines
        /\ subroutine_returns' = subroutine_returns
        /\ PushedChunks # <<>>
        /\ PushedChunks[1].type = "Code"
        /\ PushedChunks[1].addr = Head(remaining_steps).code_start
        /\ PushedChunks[1].code.instructions = FrontDecode.instructions
        /\ PushedChunks[1].code.exits = <<>>
        /\ \A k \in 1..Len(PushedChunks) : PushedChunks[k].type # "Data"
        /\ FrontDecode.addr_after_block \in DOMAIN analysed_chunks'
        /\ analysed_chunks'[FrontDecode.addr_after_block]
              = [start |-> Head(remaining_steps).code_start, idx |-> Len(chunks) + 1]
    ]_vars

\* A block ending in a dispatch without a table has just been committed
\* without exits, and the walk is still running.
C36_Witness ==
    /\ status = "walking"
    /\ last.op = "analyse_basic_block"
    /\ \E k \in 1..Len(chunks) :
          /\ chunks[k].type = "Code"
          /\ chunks[k].addr = last.step.code_start
          /\ chunks[k].code.instructions # <<>>
          /\ Last(chunks[k].code.instructions).op = JT.op
          /\ chunks[k].code.exits = <<>>
          /\ ~ \E t \in image.tables :
                  t.begin = SnesFromPc(Last(chunks[k].code.instructions).offset
                                          + Last(chunks[k].code.instructions).size)


----------------------------------------------------------------------------
(* A call of an address outside ROM. *)

\* The front step decodes a block ending in a call whose target LoROM maps to
\* no linear address.
CallOutsideRomDecoded ==
    /\ DecodesBlock
    /\ FrontDecode.instructions # <<>>
    /\ is_subroutine_call(Last(FrontDecode.instructions))
    /\ Last(FrontDecode.instructions).op # JT.op
    /\ ~SnesIsValidLoRom(Last(FrontDecode.instructions).target)

\* The step analyse_basic_block builds for the fall-through of the front block.
FallThroughStep ==
    StepBasicBlock(FrontDecode.addr_after_block, FrontDecode.processor,
                   SnesFromPc(Head(remaining_steps).code_start))

\* What the step leaves apart from the worklist: no Subroutine record, no
\* return address, the block committed without exits, the walk running.
CallOutsideRomCommitted ==
    /\ status' = "walking"
    /\ error' = "none"
    /\ analysed_code_starts' = analysed_code_starts \cup {FrontDecode.addr_after_block}
    /\ analysed_subroutines' = analysed_subroutines
    /\ subroutine_returns' = subroutine_returns
    /\ PushedChunks # <<>>
    /\ PushedChunks[1].type = "Code"
    /\ PushedChunks[1].addr = Head(remaining_steps).code_start
    /\ PushedChunks[1].code.exits = <<>>
    /\ PushedChunks[1].code.final_processor_state = FallThroughStep.processor

\* C37 as stated: a call whose target cannot be converted to a linear address
\* enqueues a BasicBlock step for the fall-through address, with the flag
\* state at the end of the calling block; no Subroutine step is enqueued, no
\* exit is recorded and the walk goes on.
C37_CallOutsideRomEnqueuesFallThrough ==
    [][CallOutsideRomDecoded =>
        /\ remaining_steps' = <<FallThroughStep>> \o Tail(remaining_steps)
        /\ CallOutsideRomCommitted
    ]_vars

\* C37, amended: the step for the fall-through address is enqueued unless the
\* address was enqueued before (enqueue_basic_block skips it then and the
\* worklist only loses the front step); the rest is as stated.
C37_CallOutsideRomEnqueuesFallThroughOnce ==
    [][CallOutsideRomDecoded =>
        /\ remaining_steps'
              = IF FrontDecode.addr_after_block \in analysed_code_starts
                THEN Tail(remaining_steps)
                ELSE <<FallThroughStep>> \o Tail(remaining_steps)
        /\ CallOutsideRomCommitted
    ]_vars

\* A call into RAM has just been decoded: the block is committed without
\* exits, no subroutine is known, and the step for the address after the call
\* is at the front of the worklist with the block's final flag state.
C37_Witness ==
    /\ status = "walking"
    /\ last.op = "analyse_basic_block"
    /\ remaining_steps # <<>>
    /\ Head(remaining_steps).type = "BasicBlock"
    /\ analysed_subroutines = EmptyMap
    /\ \E k \in 1..Len(chunks) :
          /\ chunks[k].type = "Code"
          /\ chunks[k].addr = last.step.code_start
          /\ chunks[k].code.instructions # <<>>
          /\ is_subroutine_call(Last(chunks[k].code.instructions))
          /\ ~SnesIsValidLoRom(Last(chunks[k].code.instructions).target)
          /\ chunks[k].code.exits = <<>>
          /\ Head(remaining_steps).code_start
                = Last(chunks[k].code.instructions).offset
                     + Last(chunks[k].code.instructions).size
          /\ Head(remaining_steps).processor = chunks[k].code.final_processor_state
          /\ Head(remaining_steps).entrance = SnesFromPc(chunks[k].addr)

----------------------------------------------------------------------------
(* A step for a known block. *)

\* The front step is a BasicBlock step for the start address of a Code chunk.
StepForKnownBlock ==
    /\ status = "walking"
    /\ remaining_steps # <<>>
    /\ Head(remaining_steps).type = "BasicBlock"
    /\ \E k \in 1..Len(chunks) :
          /\ chunks[k].type = "Code"
          /\ chunks[k].addr = Head(remaining_steps).code_start

\* C38: a BasicBlock step whose start address is the start of an existing
\* Code chunk leaves chunks, the range index, analysed_code_starts, the
\* subroutine records and the return addresses as they are, and the worklist
\* loses the step and nothing else.
C38_StepForKnownBlockChangesNothing ==
    [][StepForKnownBlock => OnlyPopsStep]_vars


\* The step just taken was a BasicBlock step for the start of a Code chunk it
\* neither decoded nor split off: its entrance is not among the chunk's.
C38_Witness ==
    /\ status = "walking"
    /\ last.op = "analyse_basic_block"
    /\ \E k \in 1..Len(chunks) :
          /\ chunks[k].type = "Code"
          /\ chunks[k].addr = last.step.code_start
          /\ chunks[k].code.instructions # <<>>
          /\ last.step.entrance \notin Range(chunks[k].code.entrances)


----------------------------------------------------------------------------
(* C39: cleanup keeps one entry per start address, non-Unknown preferred *)

\* The entries cleanup works on: the discovered chunks and the sentinel it
\* pushes first (mod.rs 273).
EntriesAt(a) ==
    SelectSeq(Append(chunks, EndOfRomChunk(RomLen)), LAMBDA c : c.addr = a)

KeptAt(cs, a) == SelectSeq(cs, LAMBDA c : c.addr = a)

\* The store after cleanup holds, for address a, exactly one entry: a
\* non-Unknown entry of the group if the group has one, an Unknown one otherwise.
OneEntryPreferringNonUnknown(cs, a) ==
    /\ Len(KeptAt(cs, a)) = 1
    /\ KeptAt(cs, a)[1] \in Range(EntriesAt(a))
    /\ KeptAt(cs, a)[1].type = "Unknown"
          <=> \A c \in Range(EntriesAt(a)) : c.type = "Unknown"

CleanupStep == status = "walking" /\ last'.op = "cleanup"

\* C39: every cleanup step ends with a finalized store that has, for every
\* start address with entries among the discovered chunks, exactly one entry,
\* which is a Code, Data or EndOfRom entry of that address if there is one and
\* an Unknown entry only if all entries at that address are Unknown, whatever
\* the order the entries were pushed in.
C39_CleanupKeepsOnePreferredEntryPerAddress ==
    [][CleanupStep =>
          /\ status' = "finalized"
          /\ \A a \in 0..RomLen :
                EntriesAt(a) # <<>> => OneEntryPreferringNonUnknown(chunks', a)]_vars

\* The same statement for the cleanup steps that do not panic.
C39_CleanupWithoutPanicKeepsOnePreferredEntry ==
    [][(CleanupStep /\ status' = "finalized") =>
          \A a \in 0..RomLen :
             EntriesAt(a) # <<>> => OneEntryPreferringNonUnknown(chunks', a)]_vars

====
